---- MODULE Spec2Model ----
(***************************************************************************)
(* Intercept data plane of the bridge: logical connections multiplexed    *)
(* over the tunnel (pkg/tunnel Conn, pkg/plumbing TunnelConn), the         *)
(* bidirectional pipe (pkg/bidi), the IP pool and the connection registry. *)
(***************************************************************************)
EXTENDS Integers, Sequences, FiniteSets, TLC

(* ------------------------------------------------------------------ *)
(* Bounds                                                               *)
(* ------------------------------------------------------------------ *)

\* Total number of bytes the tunnel reader delivers to one connection.
MaxBytes == 3
\* Largest chunk (data frame payload) delivered at once.
MaxChunk == 2
\* Largest read buffer a caller passes to Read (len(b)).
MaxReadBuf == 2
\* Modelled depth of the inbound channels (64 in NewTunnelConn, 100 in newConn).
ChanCap == 2
\* Connections the transparent proxy accepts in one run.
NumConns == 2
\* Host bits of the modelled proxy CIDR (16 for 10.128.0.0/16): 2^HostBits addresses.
HostBits == 2
\* Callers using the IP pool concurrently.
NumPoolThreads == 2
\* DNS queries handled concurrently.
NumDns == 2
\* Websocket connections registering at the relay as clients and as servers.
NumClients == 2
NumServers == 2
MaxAccepts == 2
MaxPingTime == 7
MaxResolvLines == 2
NumProxyIPs == 2
MaxLive == 2

\* Forward-domain pattern lists have at most MaxPatterns patterns and query
\* names at most MaxLabels labels.
MaxPatterns == 2
MaxLabels == 3

\* The clock runs up to MaxTime seconds.
MaxTime == 10
MaxPods == 2
NumWriters == 2
MaxWrites == 2
NumClosers == 2
MaxCloses == 2
NumRequests == 3
MaxRelayMsgs == 2
NumHandlers == 2
NumTunnels == 2
MaxRuns == 2
MaxRegTime == 5
MaxRelayed == 1
MaxClients == 3
MaxConnects == 3
ConnChBound == 1
MaxPodTime == 2
MaxRestarts == 1

\* unused-timeout and cleanup-interval, in seconds.
UnusedTimeout == 10
CleanupInterval == 5

\* The clock advances in steps of one cleanup interval.
TickStep == CleanupInterval

Min(a, b) == IF a < b THEN a ELSE b

VARIABLES
    \* plumbing.TunnelConn
    tcReadCh,       \* readCh: the queued chunks, oldest first
    tcCloseCh,      \* closeCh is closed
    tcBuf,          \* buf: leftover of a partial Read
    tcCloseBy,      \* who ran closeOnce first: "none", "remote" (SignalClose), "local" (Close)
    tcCloseRet,     \* Close() has returned
    tcSeq,         \* next byte value the deliverer sends (bytes are numbered 1, 2, ...)
    tcQueued,       \* every byte queued on readCh so far, in order
    tcQueuedAtClose,\* Len(tcQueued) when SignalClose was applied
    tcGot,          \* every byte returned by Read so far, in order
    tcEOF,          \* some Read returned io.EOF
    tcGotAtEOF,     \* Len(tcGot) when the first Read returned io.EOF
    tcLate,         \* a Read that started after CLOSED returned bytes
    \* tunnel.Conn
    cnReadBuf,      \* readBuf: the queued chunks, oldest first
    cnClosed,       \* closed (atomic.Bool)
    cnChClosed,     \* readBuf is closed
    cnClosePc,      \* Close: "idle", "closing" (inside closeOnce.Do), "done" (returned)
    cnReadPc,       \* Read: "idle", "recv" (passed the closed check, at <-c.readBuf)
    cnReadLen,      \* len(b) of the Read in progress
    cnReadAfter,    \* the Read in progress started after CLOSED
    cnSeq,         \* next byte value the deliverer sends
    cnQueued,       \* every byte queued on readBuf so far, in order
    cnGot,          \* every byte returned by Read so far, in order
    cnEOF,          \* some Read returned io.EOF
    cnLate,         \* a Read that started after CLOSED returned bytes
    \* transparent proxy: one handleOutbound and one bidi.Pipe per accepted connection
    hoPc,           \* handleOutbound: "idle", "origdst", "dial", "wait", "done"
    sockOpen,       \* clientConn is open (accepted and not yet Close()d)
    sockData,       \* the local application has written bytes not yet read
    sockEOF,        \* the local application has shut its side down
    tnSt,           \* the tunnel connection: "none", "open", "closed"
    tnData,         \* a chunk is queued on the tunnel connection's inbound buffer
    tnSawEOF,       \* the consumer's Read on the tunnel connection returned io.EOF
    cpIn,           \* io.Copy(clientConn, targetConn): "none", "read", "write", "done"
    cpOut,          \* io.Copy(targetConn, clientConn): "none", "read", "write", "done"
    errCh,          \* number of results queued on Pipe.errCh (capacity 2)
    ctxCancelled,   \* the parent context is cancelled
    tunnelDown,     \* the tunnel stream is closed
    listenerClosed, \* the proxy listener is closed
    wasOpenAtCancel,\* connections whose pipe was open when the context was cancelled
    \* IP pool
    poolFree,       \* the free proxy IPs
    poolAlloc,      \* the allocated proxy IPs
    poolMu,         \* holder of the pool mutex (0: nobody)
    plPc,           \* per caller: "idle", "acq", "scanned", "rel"
    plIp,           \* per caller: the IP found by the scan (0: none) or to release
    plGrants,       \* per IP: acquires that returned it since the last release of it
    plReleased,     \* IPs that have been returned to the pool at least once
    plFailed,       \* an acquire has failed with POOL_EXHAUSTED
    plNoop,         \* a release of an IP that was not allocated has been made
    \* connection registry, its sweeper and the DNS handlers that allocate from it
    regEntries,     \* proxy IP -> [host, real, lastUsed]
    regMu,          \* holder of the registry mutex (0: nobody)
    now,            \* the clock, in seconds
    nextSweep,      \* when the sweeper's ticker fires next
    swPc,           \* sweeper: "idle", "sweeping"
    swTodo,         \* entries the sweep in progress has still to visit
    swStale,        \* entries that were expired when the sweep in progress began
    swReleased,     \* the sweeper has released an entry
    swEarly,        \* the sweeper has released an entry idle for less than unused-timeout
    swLooked,       \* the sweeper has released an entry that had been looked up
    swSpared,       \* a sweep has spared an entry refreshed after the sweep began
    regTouch,       \* per IP: time of its last allocation or successful lookup
    regLooked,      \* entries that have been looked up since they were allocated
    dnsPc,          \* per handler: "idle", "resolve", "acquire", "insert", "answer"
    dnsHost,        \* per handler: the hostname queried
    dnsReal,        \* per handler: the real IP the tunnel resolved ("" on error)
    dnsIp,          \* per handler: the proxy IP acquired (0: none)
    dnsAns,         \* per handler: the last response written, [rcode, ip]
    dnsExhausted,   \* per handler: the last response was SERVFAIL for an exhausted pool
    ansAt           \* per IP: time of the last A answer carrying it, while a lookup
                    \* up to unused-timeout later is still possible (-1: none)

tcVars == <<tcReadCh, tcCloseCh, tcBuf, tcCloseBy, tcCloseRet, tcSeq, tcQueued,
            tcQueuedAtClose, tcGot, tcEOF, tcGotAtEOF, tcLate>>
cnVars == <<cnReadBuf, cnClosed, cnChClosed, cnClosePc, cnReadPc, cnReadLen,
            cnReadAfter, cnSeq, cnQueued, cnGot, cnEOF, cnLate>>
pipeVars == <<hoPc, sockOpen, sockData, sockEOF, tnSt, tnData, tnSawEOF, cpIn, cpOut,
              errCh, ctxCancelled, tunnelDown, listenerClosed, wasOpenAtCancel>>
poolVars == <<poolFree, poolAlloc, poolMu, plPc, plIp, plGrants, plReleased, plFailed,
              plNoop>>
regVars == <<regEntries, regMu, now, nextSweep, swPc, swTodo, swStale, swReleased, swEarly, swLooked, swSpared,
             regTouch, regLooked, dnsPc, dnsHost, dnsReal, dnsIp, dnsAns, dnsExhausted,
             ansAt>>

\* The DNS interceptor's query handler.
VARIABLES
    dqPc,           \* "new" before the server is built, then "idle" / "arrived" / "done"
    dqPatterns,     \* the forward-domain patterns, in order
    dqName,         \* the query name as received: labels, "" last for a trailing dot
    dqType,         \* the query type
    dqIdx,          \* index of the pattern that decided the query, 0 for none
    dqResp          \* the response written: [rcode, answers, via]

dqVars == <<dqPc, dqPatterns, dqName, dqType, dqIdx, dqResp>>

\* The websocket relay server (WSServer) pairing clients with servers.
VARIABLES
    clPc,           \* per client handler: "idle", "stored", "posting", "waiting",
                    \* "relaying", "closed"
    clErr,          \* per client: the error frame (close set) sent to it, "none" if none
    wsPending,      \* pendingTunnels: connection key -> client
    wsReady,        \* per client: pending.ready, 0 when empty, else the server sent
    wsDone,         \* per client: pending.done is closed
    wsTimedOut,     \* per client: pairCtx has expired
    wsPostKey,      \* per client: connectionKey of the POST sent, 0 before it
    wsPostPending,  \* per client: the POSTed key mapped to the client when sent
    srvPc,          \* per server handler: "idle", "handed", "closed"
    srvKey,         \* per server: connection_key of its registration
    srvErr,         \* per server: the error frame sent to it, "none" if none
    srvPeer,        \* per server: the client whose ready channel received it, 0 if none
    wsRelayed       \* pairs <<client, server>> between which a message was relayed

wsVars == <<clPc, clErr, wsPending, wsReady, wsDone, wsTimedOut, wsPostKey,
            wsPostPending, srvPc, srvKey, srvErr, srvPeer, wsRelayed>>

\* The variables of the connection types, the pipes, the pool and the registry.
coreVars == <<tcVars, cnVars, pipeVars, poolVars, regVars>>

\* The variables of the components modelled after them.
\* The accept loops: per loop its context, its listener, where the loop is and
\* how many connections it has accepted; the goroutine AcceptLoop starts to
\* close the listener; the interceptor's signal goroutine.
VARIABLES
    alCtx, alLn, alPc, alCount, alWatch, alSig

alVars == <<alCtx, alLn, alPc, alCount, alWatch, alSig>>

\* A wsConn: the clock in units of 10 s, the ticker's next firing, where
\* pingLoop is, c.closed, the time of the oldest ping still without a pong
\* (-1 when there is none), and the outcome of the last Read or Write.
VARIABLES
    pgNow, pgNext, pgPc, pgClosed, pgAwait, pgLastIO

pgVars == <<pgNow, pgNext, pgPc, pgClosed, pgAwait, pgLastIO>>

\* The intercept command and /etc/resolv.conf: where doIntercept is, whether
\* forward domains are configured, the file (the empty set when it is
\* missing, otherwise the set holding its lines), originalResolvConf (the
\* empty set for nil), the file as it was before doIntercept touched it, and
\* whether the rewrite has been written, and the upstream resolver handed to
\* the DNS exchange client ("" before that).
VARIABLES
    rcPc, rcFwd, rcFile, rcSaved, rcOrig, rcPrepended, rcUpstream

rcVars == <<rcPc, rcFwd, rcFile, rcSaved, rcOrig, rcPrepended, rcUpstream>>

\* The interceptor's outbound handlers and the registry they run beside: where
\* each handler is, the destination it recovered (0 before that), whether a
\* logical stream was opened on the tunnel for it, and the proxy IPs that
\* have a registry entry.
VARIABLES
    obPc, obDst, obStream, obEntries

obVars == <<obPc, obDst, obStream, obEntries>>

\* Logical connections by ID: the connections in flight on one tunnel (which
\* side created each, the TCP connection or HTTP request behind it, its ID)
\* and the IDs of the connections that were closed.
VARIABLES
    idLive, idClosed

idVars == <<idLive, idClosed>>

\* The inbound buffers at their real depth, per connection type: the number
\* of undelivered chunks, whether the deliverer holds a chunk it has not yet
\* queued, and whether the connection is closed.
VARIABLES
    bfLen, bfSend, bfClosed

bfVars == <<bfLen, bfSend, bfClosed>>

\* Original-destination recovery on a platform other than Linux: where the
\* call is, which function is called, on which connection, and what it
\* returned.
VARIABLES
    odPc, odFn, odConn, odRes

odVars == <<odPc, odFn, odConn, odRes>>

\* ParseAddr: where the call is, the parts the address was written from, the
\* address as ParseAddr gets it, and what it returned.
VARIABLES
    paPc, paIn, paAddr, paRes

paVars == <<paPc, paIn, paAddr, paRes>>

\* pickBestPod: where the call is, the pods it was given, and the index of
\* the pod it returned (0 for nil).
VARIABLES
    pkPc, pkPods, pkRes

pkVars == <<pkPc, pkPods, pkRes>>

\* Writes and Closes of one tunnel Conn: its closed flag, whether closeOnce
\* was entered and has finished, each writer's position, number of Writes
\* and last result, each closer's position, and the frames sent on the
\* tunnel for the connection's id.
VARIABLES
    cwClosed, cwOnce, cwOnceDone, cwWr, cwCount, cwRet, cwCl, cwFrames

cwVars == <<cwClosed, cwOnce, cwOnceDone, cwWr, cwCount, cwRet, cwCl, cwFrames>>

\* Close, SignalClose and Write calls on one TunnelConn: whether it was built
\* and with an OnClose, whether closeOnce has run, closeCh, each closer's
\* position and number of Close calls made, the number of times onClose was
\* invoked, each writer's number of Writes, and the frames put on the tunnel
\* stream for the connection.
VARIABLES
    tkNew, tkHasOnClose, tkOnce, tkCloseCh, tkCl, tkCalls, tkOnClose, tkWrites,
    tkFrames

tkVars == <<tkNew, tkHasOnClose, tkOnce, tkCloseCh, tkCl, tkCalls, tkOnClose,
            tkWrites, tkFrames>>

\* proxy.Server: connCh is closed, the number of connections queued in it,
\* each CONNECT request's position, and where Shutdown is.
VARIABLES
    hcClosed, hcCh, hcReq, hcShut

hcVars == <<hcClosed, hcCh, hcReq, hcShut>>

\* One paired tunnel in relayMessages. Connection 1 is the client's, 2 the
\* server's: the remote end of each has failed, each was closed by its
\* handleTunnel, messages waiting to be read on each, the messages that have
\* arrived in all, the two relay goroutines, the tokens in relayMessages'
\* done channel, the client handler's position, pending.done, and the
\* server handler's position.
VARIABLES
    rlBroken, rlClosed, rlIn, rlArrived, rlG, rlDoneCh, rlMain, rlPDone, rlSrv

rlVars == <<rlBroken, rlClosed, rlIn, rlArrived, rlG, rlDoneCh, rlMain, rlPDone,
            rlSrv>>

\* The dispatcher's tunnel client singleton. Module state of logger.ts:
\* tunnelClient (0 for null), connectionPromise (the client whose connect it
\* wraps, 0 for null), currentSandboxUrl; the clients created so far, each
\* client's connection state and connect promise, the clients disconnected
\* while connecting; backgroundProcessingStarted, the number of runUntilDone
\* calls made on each client and still running on it; the number of
\* handleTunnelConnect calls made; per request handler its position, the
\* promise it awaits, whether it created that promise, the client it got,
\* and its last response.
VARIABLES
    gtClient, gtPromise, gtUrl, gtNext, gtConn, gtProm, gtCut, gtBg, gtRuns,
    gtRunning, gtCalls, hPc, hAwait, hOwn, hClient, hStatus

gtVars == <<gtClient, gtPromise, gtUrl, gtNext, gtConn, gtProm, gtCut, gtBg,
            gtRuns, gtRunning, gtCalls, hPc, hAwait, hOwn, hClient, hStatus>>

\* Tunnel websocket connections in handleTunnel: the clock in units of 10 s;
\* per connection its position, the time it connected, its first message
\* ("none" while there is none), whether it was paired, the error frame
\* sent to it, and the number of its messages relayed.
VARIABLES
    rgNow, rgPc, rgStart, rgFirst, rgPaired, rgErr, rgRelayed

rgVars == <<rgNow, rgPc, rgStart, rgFirst, rgPaired, rgErr, rgRelayed>>

\* The number of times the intercept command has been started.
VARIABLES
    rnRuns

rnVars == <<rnRuns>>

laterVars == <<obVars, idVars, bfVars, odVars, paVars, pkVars, cwVars, tkVars, hcVars, rlVars, gtVars, rgVars, rnVars>>

moreVars == <<alVars, pgVars, rcVars, laterVars>>

extVars == <<dqVars, wsVars, moreVars>>

vars == <<tcVars, cnVars, pipeVars, poolVars, regVars, extVars>>

obOthers == <<coreVars, dqVars, wsVars, alVars, pgVars, rcVars, idVars, bfVars, odVars, paVars, pkVars, cwVars, tkVars, hcVars, rlVars, gtVars, rgVars, rnVars>>

idOthers == <<coreVars, dqVars, wsVars, alVars, pgVars, rcVars, obVars, bfVars, odVars, paVars, pkVars, cwVars, tkVars, hcVars, rlVars, gtVars, rgVars, rnVars>>

bfOthers == <<coreVars, dqVars, wsVars, alVars, pgVars, rcVars, obVars, idVars, odVars, paVars, pkVars, cwVars, tkVars, hcVars, rlVars, gtVars, rgVars, rnVars>>

odOthers == <<coreVars, dqVars, wsVars, alVars, pgVars, rcVars, obVars, idVars, bfVars, paVars, pkVars, cwVars, tkVars, hcVars, rlVars, gtVars, rgVars, rnVars>>

paOthers == <<coreVars, dqVars, wsVars, alVars, pgVars, rcVars, obVars, idVars, bfVars, odVars, pkVars, cwVars, tkVars, hcVars, rlVars, gtVars, rgVars, rnVars>>

pkOthers == <<coreVars, dqVars, wsVars, alVars, pgVars, rcVars, obVars, idVars, bfVars, odVars, paVars, cwVars, tkVars, hcVars, rlVars, gtVars, rgVars, rnVars>>

cwOthers == <<coreVars, dqVars, wsVars, alVars, pgVars, rcVars, obVars, idVars, bfVars, odVars, paVars, pkVars, tkVars, hcVars, rlVars, gtVars, rgVars, rnVars>>

tkOthers == <<coreVars, dqVars, wsVars, alVars, pgVars, rcVars, obVars, idVars, bfVars, odVars, paVars, pkVars, cwVars, hcVars, rlVars, gtVars, rgVars, rnVars>>

hcOthers == <<coreVars, dqVars, wsVars, alVars, pgVars, rcVars, obVars, idVars, bfVars, odVars, paVars, pkVars, cwVars, tkVars, rlVars, gtVars, rgVars, rnVars>>

rlOthers == <<coreVars, dqVars, wsVars, alVars, pgVars, rcVars, obVars, idVars, bfVars, odVars, paVars, pkVars, cwVars, tkVars, hcVars, gtVars, rgVars, rnVars>>

gtOthers == <<coreVars, dqVars, wsVars, alVars, pgVars, rcVars, obVars, idVars, bfVars, odVars, paVars, pkVars, cwVars, tkVars, hcVars, rlVars, rgVars, rnVars>>

rgOthers == <<coreVars, dqVars, wsVars, alVars, pgVars, rcVars, obVars, idVars, bfVars, odVars, paVars, pkVars, cwVars, tkVars, hcVars, rlVars, gtVars, rnVars>>

rnOthers == <<coreVars, dqVars, wsVars, alVars, pgVars, rcVars, obVars, idVars, bfVars, odVars, paVars, pkVars, cwVars, tkVars, hcVars, rlVars, gtVars, rgVars>>

runsOthers == <<coreVars, dqVars, wsVars, alVars, pgVars, obVars, idVars, bfVars, odVars, paVars, pkVars, cwVars, tkVars, hcVars, rlVars, gtVars, rgVars>>

(* ------------------------------------------------------------------ *)
(* Byte-slice helpers                                                   *)
(* ------------------------------------------------------------------ *)

\* The chunk of n fresh bytes starting at value first.
Chunk(first, n) == [i \in 1..n |-> first + i - 1]

\* copy(b, data): the bytes that fit in a buffer of length blen.
Copied(blen, data) == SubSeq(data, 1, Min(blen, Len(data)))

\* data[n:] after copy returned n.
Rest(blen, data) == SubSeq(data, Min(blen, Len(data)) + 1, Len(data))

RECURSIVE Flatten(_)
\* The concatenation of a sequence of chunks.
Flatten(chs) == IF chs = <<>> THEN <<>> ELSE Head(chs) \o Flatten(Tail(chs))

(* ------------------------------------------------------------------ *)
(* plumbing.TunnelConn                                                  *)
(* ------------------------------------------------------------------ *)

TcInit ==
    /\ tcReadCh = <<>>
    /\ tcCloseCh = FALSE
    /\ tcBuf = <<>>
    /\ tcCloseBy = "none"
    /\ tcCloseRet = FALSE
    /\ tcSeq = 1
    /\ tcQueued = <<>>
    /\ tcQueuedAtClose = 0
    /\ tcGot = <<>>
    /\ tcEOF = FALSE
    /\ tcGotAtEOF = 0
    /\ tcLate = FALSE

\* CLOSED: Close has returned, or a Read has returned EOF.
TcIsClosed == tcCloseRet \/ tcEOF

\* Deliver, case tc.readCh <- data: the chunk is queued.
TcDeliverQueue(n) ==
    /\ Len(tcReadCh) < ChanCap
    /\ tcReadCh' = Append(tcReadCh, Chunk(tcSeq, n))
    /\ tcQueued' = tcQueued \o Chunk(tcSeq, n)
    /\ tcSeq' = tcSeq + n
    /\ UNCHANGED <<tcCloseCh, tcBuf, tcCloseBy, tcCloseRet, tcQueuedAtClose,
                   tcGot, tcEOF, tcGotAtEOF, tcLate>>

\* Deliver, case <-tc.closeCh: the chunk is discarded.
TcDeliverDrop(n) ==
    /\ tcCloseCh
    /\ tcSeq' = tcSeq + n
    /\ UNCHANGED <<tcReadCh, tcCloseCh, tcBuf, tcCloseBy, tcCloseRet, tcQueued,
                   tcQueuedAtClose, tcGot, tcEOF, tcGotAtEOF, tcLate>>

\* Deliver(data): a select over both cases; when both are ready either runs.
TcDeliver ==
    \E n \in 1..MaxChunk :
        /\ tcSeq + n - 1 <= MaxBytes
        /\ (TcDeliverQueue(n) \/ TcDeliverDrop(n))

\* SignalClose(): closeOnce.Do(close(closeCh)); a no-op once closeOnce has run.
TcSignalClose ==
    /\ IF tcCloseBy = "none"
       THEN /\ tcCloseCh' = TRUE
            /\ tcCloseBy' = "remote"
            /\ tcQueuedAtClose' = Len(tcQueued)
       ELSE UNCHANGED <<tcCloseCh, tcCloseBy, tcQueuedAtClose>>
    /\ UNCHANGED <<tcReadCh, tcBuf, tcCloseRet, tcSeq, tcQueued, tcGot, tcEOF,
                   tcGotAtEOF, tcLate>>

\* Close(): closeOnce.Do(close(closeCh)); onClose(); return nil.
TcClose ==
    /\ ~tcCloseRet
    /\ IF tcCloseBy = "none"
       THEN tcCloseCh' = TRUE /\ tcCloseBy' = "local"
       ELSE UNCHANGED <<tcCloseCh, tcCloseBy>>
    /\ tcCloseRet' = TRUE
    /\ UNCHANGED <<tcReadCh, tcBuf, tcSeq, tcQueued, tcQueuedAtClose, tcGot,
                   tcEOF, tcGotAtEOF, tcLate>>

\* What a Read that returns the bytes got records.
TcReturn(got) ==
    /\ tcGot' = tcGot \o got
    /\ tcLate' = (tcLate \/ (TcIsClosed /\ Len(got) > 0))
    /\ UNCHANGED <<tcEOF, tcGotAtEOF>>

\* Read, len(tc.buf) > 0: serve the leftover first.
TcReadLeftover(blen) ==
    /\ Len(tcBuf) > 0
    /\ tcBuf' = Rest(blen, tcBuf)
    /\ TcReturn(Copied(blen, tcBuf))
    /\ UNCHANGED tcReadCh

\* Read, case data := <-tc.readCh: copy and keep what did not fit.
TcReadData(blen) ==
    /\ Len(tcBuf) = 0
    /\ Len(tcReadCh) > 0
    /\ tcReadCh' = Tail(tcReadCh)
    /\ tcBuf' = Rest(blen, Head(tcReadCh))
    /\ TcReturn(Copied(blen, Head(tcReadCh)))

\* Read, case <-tc.closeCh: return 0, io.EOF.
TcReadEOF ==
    /\ Len(tcBuf) = 0
    /\ tcCloseCh
    /\ tcEOF' = TRUE
    /\ tcGotAtEOF' = IF tcEOF THEN tcGotAtEOF ELSE Len(tcGot)
    /\ UNCHANGED <<tcReadCh, tcBuf, tcGot, tcLate>>

\* Read(b): the select picks any ready case.
TcRead ==
    /\ \E blen \in 1..MaxReadBuf :
          \/ TcReadLeftover(blen)
          \/ TcReadData(blen)
          \/ TcReadEOF
    /\ UNCHANGED <<tcCloseCh, tcCloseBy, tcCloseRet, tcSeq, tcQueued, tcQueuedAtClose>>

(* ------------------------------------------------------------------ *)
(* tunnel.Conn                                                          *)
(* ------------------------------------------------------------------ *)

CnInit ==
    /\ cnReadBuf = <<>>
    /\ cnClosed = FALSE
    /\ cnChClosed = FALSE
    /\ cnClosePc = "idle"
    /\ cnReadPc = "idle"
    /\ cnReadLen = 0
    /\ cnReadAfter = FALSE
    /\ cnSeq = 1
    /\ cnQueued = <<>>
    /\ cnGot = <<>>
    /\ cnEOF = FALSE
    /\ cnLate = FALSE

\* CLOSED: Close has returned, or a Read has returned EOF.
CnIsClosed == cnClosePc = "done" \/ cnEOF

\* The tunnel client's read loop queues a data frame's payload: c.readBuf <- data.
CnDeliver ==
    \E n \in 1..MaxChunk :
        /\ cnSeq + n - 1 <= MaxBytes
        /\ ~cnChClosed
        /\ Len(cnReadBuf) < ChanCap
        /\ cnReadBuf' = Append(cnReadBuf, Chunk(cnSeq, n))
        /\ cnQueued' = cnQueued \o Chunk(cnSeq, n)
        /\ cnSeq' = cnSeq + n
        /\ UNCHANGED <<cnClosed, cnChClosed, cnClosePc, cnReadPc, cnReadLen,
                       cnReadAfter, cnGot, cnEOF, cnLate>>

\* Close, first half of closeOnce.Do: closed.Store(true); client.sendClose(id).
CnCloseBegin ==
    /\ cnClosePc = "idle"
    /\ cnClosed' = TRUE
    /\ cnClosePc' = "closing"
    /\ UNCHANGED <<cnReadBuf, cnChClosed, cnReadPc, cnReadLen, cnReadAfter, cnSeq,
                   cnQueued, cnGot, cnEOF, cnLate>>

\* Close, second half: close(c.readBuf); return nil.
CnCloseEnd ==
    /\ cnClosePc = "closing"
    /\ cnChClosed' = TRUE
    /\ cnClosePc' = "done"
    /\ UNCHANGED <<cnReadBuf, cnClosed, cnReadPc, cnReadLen, cnReadAfter, cnSeq,
                   cnQueued, cnGot, cnEOF, cnLate>>

\* Read, the closed check: if c.closed.Load() { return 0, io.EOF }.
CnReadCheck ==
    /\ cnReadPc = "idle"
    /\ \E blen \in 1..MaxReadBuf :
          IF cnClosed
          THEN /\ cnEOF' = TRUE
               /\ UNCHANGED <<cnReadPc, cnReadLen, cnReadAfter>>
          ELSE /\ cnReadPc' = "recv"
               /\ cnReadLen' = blen
               /\ cnReadAfter' = CnIsClosed
               /\ UNCHANGED cnEOF
    /\ UNCHANGED <<cnReadBuf, cnClosed, cnChClosed, cnClosePc, cnSeq, cnQueued,
                   cnGot, cnLate>>

\* n := copy(b, data); return n, nil. Whatever of data does not fit in b is gone.
CnCopy(blen, data) == Copied(blen, data)

\* Read, data, ok := <-c.readBuf with a chunk queued: n := copy(b, data).
CnReadData ==
    /\ cnReadPc = "recv"
    /\ Len(cnReadBuf) > 0
    /\ cnReadBuf' = Tail(cnReadBuf)
    /\ cnGot' = cnGot \o CnCopy(cnReadLen, Head(cnReadBuf))
    /\ cnLate' = (cnLate \/ cnReadAfter)
    /\ cnReadPc' = "idle"
    /\ UNCHANGED <<cnClosed, cnChClosed, cnClosePc, cnReadLen, cnReadAfter, cnSeq,
                   cnQueued, cnEOF>>

\* Read, <-c.readBuf on a closed and drained channel: !ok, return 0, io.EOF.
CnReadChanClosed ==
    /\ cnReadPc = "recv"
    /\ Len(cnReadBuf) = 0
    /\ cnChClosed
    /\ cnEOF' = TRUE
    /\ cnReadPc' = "idle"
    /\ UNCHANGED <<cnReadBuf, cnClosed, cnChClosed, cnClosePc, cnReadLen,
                   cnReadAfter, cnSeq, cnQueued, cnGot, cnLate>>

(* ------------------------------------------------------------------ *)
(* Transparent proxy: handleOutbound, bidi.Pipe and cancellation        *)
(* ------------------------------------------------------------------ *)

Conns == 1..NumConns

PipeInit ==
    /\ hoPc = [c \in Conns |-> "idle"]
    /\ sockOpen = [c \in Conns |-> FALSE]
    /\ sockData = [c \in Conns |-> FALSE]
    /\ sockEOF = [c \in Conns |-> FALSE]
    /\ tnSt = [c \in Conns |-> "none"]
    /\ tnData = [c \in Conns |-> FALSE]
    /\ tnSawEOF = [c \in Conns |-> FALSE]
    /\ cpIn = [c \in Conns |-> "none"]
    /\ cpOut = [c \in Conns |-> "none"]
    /\ errCh = [c \in Conns |-> 0]
    /\ ctxCancelled = FALSE
    /\ tunnelDown = FALSE
    /\ listenerClosed = FALSE
    /\ wasOpenAtCancel = {}

\* runTransparentProxy: conn := listener.Accept(); go handleOutbound(conn).
Accept(c) ==
    /\ ~listenerClosed
    /\ hoPc[c] = "idle"
    /\ hoPc' = [hoPc EXCEPT ![c] = "origdst"]
    /\ sockOpen' = [sockOpen EXCEPT ![c] = TRUE]
    /\ UNCHANGED <<sockData, sockEOF, tnSt, tnData, tnSawEOF, cpIn, cpOut, errCh,
                   ctxCancelled, tunnelDown, listenerClosed, wasOpenAtCancel>>

\* Mutant of HandlerReturn: the failing handler takes every connection down.
HandlerReturnAll(c) ==
    /\ hoPc' = [d \in Conns |-> IF hoPc[d] = "idle" THEN "idle" ELSE "done"]
    /\ sockOpen' = [d \in Conns |-> FALSE]
    /\ sockData' = [d \in Conns |-> FALSE]
    /\ sockEOF' = [d \in Conns |-> FALSE]
    /\ tnSt' = [d \in Conns |-> IF tnSt[d] = "open" THEN "closed" ELSE tnSt[d]]
    /\ tnData' = [d \in Conns |-> FALSE]

\* handleOutbound returns: the deferred Closes run, targetConn first (if dialled),
\* then clientConn. A closed socket has no unread bytes; the chunks queued on a
\* closed Conn are never read (Read checks closed first).
HandlerReturn(c) ==
    /\ hoPc' = [hoPc EXCEPT ![c] = "done"]
    /\ sockOpen' = [sockOpen EXCEPT ![c] = FALSE]
    /\ sockData' = [sockData EXCEPT ![c] = FALSE]
    /\ sockEOF' = [sockEOF EXCEPT ![c] = FALSE]
    /\ tnSt' = [tnSt EXCEPT ![c] = IF tnSt[c] = "open" THEN "closed" ELSE tnSt[c]]
    /\ tnData' = [tnData EXCEPT ![c] = FALSE]

\* handleOutbound: origDst, err := getOriginalDst(clientConn).
OrigDst(c) ==
    /\ hoPc[c] = "origdst"
    /\ \/ /\ hoPc' = [hoPc EXCEPT ![c] = "dial"]
          /\ UNCHANGED <<sockOpen, tnSt>>
          /\ UNCHANGED <<sockData, sockEOF, tnData>>
       \/ HandlerReturn(c)
    /\ UNCHANGED <<tnSawEOF, cpIn, cpOut, errCh,
                   ctxCancelled, tunnelDown, listenerClosed, wasOpenAtCancel>>

\* handleOutbound: targetConn, err := i.tunnel.DialThroughTunnel(...), then
\* bidi.New(clientConn, targetConn) starts the two copies. The dial fails once
\* the tunnel is down and may fail before.
Dial(c) ==
    /\ hoPc[c] = "dial"
    /\ \/ /\ ~tunnelDown
          /\ hoPc' = [hoPc EXCEPT ![c] = "wait"]
          /\ tnSt' = [tnSt EXCEPT ![c] = "open"]
          /\ cpIn' = [cpIn EXCEPT ![c] = "read"]
          /\ cpOut' = [cpOut EXCEPT ![c] = "read"]
          /\ UNCHANGED <<sockOpen, sockData, sockEOF, tnData>>
       \/ /\ HandlerReturn(c)
          /\ UNCHANGED <<cpIn, cpOut>>
    /\ UNCHANGED <<tnSawEOF, errCh, ctxCancelled, tunnelDown, listenerClosed,
                   wasOpenAtCancel>>

\* The local application writes to its socket. Nothing reads the socket before
\* the pipe exists, so a write made earlier is the same as one made then.
AppSend(c) ==
    /\ hoPc[c] = "wait"
    /\ sockOpen[c] /\ ~sockEOF[c] /\ ~sockData[c]
    /\ sockData' = [sockData EXCEPT ![c] = TRUE]
    /\ UNCHANGED <<hoPc, sockOpen, sockEOF, tnSt, tnData, tnSawEOF, cpIn, cpOut,
                   errCh, ctxCancelled, tunnelDown, listenerClosed, wasOpenAtCancel>>

\* The local application shuts its socket down.
AppClose(c) ==
    /\ hoPc[c] = "wait"
    /\ sockOpen[c] /\ ~sockEOF[c]
    /\ sockEOF' = [sockEOF EXCEPT ![c] = TRUE]
    /\ UNCHANGED <<hoPc, sockOpen, sockData, tnSt, tnData, tnSawEOF, cpIn, cpOut,
                   errCh, ctxCancelled, tunnelDown, listenerClosed, wasOpenAtCancel>>

\* The tunnel's read loop queues a data frame on the connection's inbound buffer.
TunnelData(c) ==
    /\ ~tunnelDown
    /\ tnSt[c] = "open" /\ ~tnData[c]
    /\ tnData' = [tnData EXCEPT ![c] = TRUE]
    /\ UNCHANGED <<hoPc, sockOpen, sockData, sockEOF, tnSt, tnSawEOF, cpIn, cpOut,
                   errCh, ctxCancelled, tunnelDown, listenerClosed, wasOpenAtCancel>>

\* The tunnel's read loop receives close(id): the connection is closed.
RemoteClose(c) ==
    /\ ~tunnelDown
    /\ tnSt[c] = "open"
    /\ tnSt' = [tnSt EXCEPT ![c] = "closed"]
    /\ tnData' = [tnData EXCEPT ![c] = FALSE]
    /\ UNCHANGED <<hoPc, sockOpen, sockData, sockEOF, tnSawEOF, cpIn, cpOut,
                   errCh, ctxCancelled, tunnelDown, listenerClosed, wasOpenAtCancel>>

\* A copy goroutine ends: p.errCh <- err.
CopyEnds(c) == errCh' = [errCh EXCEPT ![c] = errCh[c] + 1]

\* io.Copy(clientConn, targetConn), the Read on the tunnel connection: EOF once
\* it is closed (Conn.Read checks closed first), a chunk when one is queued.
CopyInRead(c) ==
    /\ cpIn[c] = "read"
    /\ \/ /\ tnSt[c] = "closed"
          /\ tnSawEOF' = [tnSawEOF EXCEPT ![c] = TRUE]
          /\ cpIn' = [cpIn EXCEPT ![c] = "done"]
          /\ CopyEnds(c)
          /\ UNCHANGED tnData
       \/ /\ tnSt[c] = "open" /\ tnData[c]
          /\ tnData' = [tnData EXCEPT ![c] = FALSE]
          /\ cpIn' = [cpIn EXCEPT ![c] = "write"]
          /\ UNCHANGED <<tnSawEOF, errCh>>
    /\ UNCHANGED <<hoPc, sockOpen, sockData, sockEOF, tnSt, cpOut, ctxCancelled,
                   tunnelDown, listenerClosed, wasOpenAtCancel>>

\* io.Copy(clientConn, targetConn), the Write to the local socket: an error once
\* the socket is closed.
CopyInWrite(c) ==
    /\ cpIn[c] = "write"
    /\ IF sockOpen[c]
       THEN cpIn' = [cpIn EXCEPT ![c] = "read"] /\ UNCHANGED errCh
       ELSE cpIn' = [cpIn EXCEPT ![c] = "done"] /\ CopyEnds(c)
    /\ UNCHANGED <<hoPc, sockOpen, sockData, sockEOF, tnSt, tnData, tnSawEOF, cpOut,
                   ctxCancelled, tunnelDown, listenerClosed, wasOpenAtCancel>>

\* io.Copy(targetConn, clientConn), the Read on the local socket: an error once
\* the socket is closed, bytes when the application wrote some, EOF after its
\* shutdown.
CopyOutRead(c) ==
    /\ cpOut[c] = "read"
    /\ \/ /\ ~sockOpen[c] \/ (sockEOF[c] /\ ~sockData[c])
          /\ cpOut' = [cpOut EXCEPT ![c] = "done"]
          /\ CopyEnds(c)
          /\ UNCHANGED sockData
       \/ /\ sockOpen[c] /\ sockData[c]
          /\ sockData' = [sockData EXCEPT ![c] = FALSE]
          /\ cpOut' = [cpOut EXCEPT ![c] = "write"]
          /\ UNCHANGED errCh
    /\ UNCHANGED <<hoPc, sockOpen, sockEOF, tnSt, tnData, tnSawEOF, cpIn,
                   ctxCancelled, tunnelDown, listenerClosed, wasOpenAtCancel>>

\* io.Copy(targetConn, clientConn), the Write to the tunnel connection:
\* io.ErrClosedPipe once it is closed (Conn.Write), a send error once the tunnel
\* is down.
CopyOutWrite(c) ==
    /\ cpOut[c] = "write"
    /\ IF tnSt[c] = "open" /\ ~tunnelDown
       THEN cpOut' = [cpOut EXCEPT ![c] = "read"] /\ UNCHANGED errCh
       ELSE cpOut' = [cpOut EXCEPT ![c] = "done"] /\ CopyEnds(c)
    /\ UNCHANGED <<hoPc, sockOpen, sockData, sockEOF, tnSt, tnData, tnSawEOF, cpIn,
                   ctxCancelled, tunnelDown, listenerClosed, wasOpenAtCancel>>

\* Mutant of WaitReturn: Wait returns only after both copy directions have ended.
WaitReturnBoth(c) ==
    /\ hoPc[c] = "wait"
    /\ errCh[c] = 2
    /\ errCh' = [errCh EXCEPT ![c] = 0]
    /\ HandlerReturn(c)
    /\ UNCHANGED <<tnSawEOF, cpIn, cpOut, ctxCancelled, tunnelDown, listenerClosed,
                   wasOpenAtCancel>>

\* Pipe.Wait(context.Background()): case err := <-p.errCh: return err; then
\* handleOutbound returns. The ctx.Done() case never fires: every caller passes
\* context.Background().
WaitReturn(c) ==
    /\ hoPc[c] = "wait"
    /\ errCh[c] > 0
    /\ errCh' = [errCh EXCEPT ![c] = errCh[c] - 1]
    /\ HandlerReturn(c)
    /\ UNCHANGED <<tnSawEOF, cpIn, cpOut, ctxCancelled, tunnelDown, listenerClosed,
                   wasOpenAtCancel>>

\* The parent context is cancelled.
CancelParent ==
    /\ ~ctxCancelled
    /\ ctxCancelled' = TRUE
    /\ wasOpenAtCancel' = {c \in Conns : hoPc[c] = "wait"}
    /\ UNCHANGED <<hoPc, sockOpen, sockData, sockEOF, tnSt, tnData, tnSawEOF, cpIn,
                   cpOut, errCh, tunnelDown, listenerClosed>>

\* Cancellation closes the tunnel stream: the reader and writer exit and every
\* outstanding logical connection is closed (EOF on its inbound buffer).
TunnelTeardown ==
    /\ ctxCancelled /\ ~tunnelDown
    /\ tunnelDown' = TRUE
    /\ tnSt' = [c \in Conns |-> IF tnSt[c] = "open" THEN "closed" ELSE tnSt[c]]
    /\ tnData' = [c \in Conns |-> FALSE]
    /\ UNCHANGED <<hoPc, sockOpen, sockData, sockEOF, tnSawEOF, cpIn, cpOut,
                   errCh, ctxCancelled, listenerClosed, wasOpenAtCancel>>

\* Cancellation closes the proxy listener.
ListenerClose ==
    /\ ctxCancelled /\ ~listenerClosed
    /\ listenerClosed' = TRUE
    /\ UNCHANGED <<hoPc, sockOpen, sockData, sockEOF, tnSt, tnData, tnSawEOF, cpIn,
                   cpOut, errCh, ctxCancelled, tunnelDown, wasOpenAtCancel>>

(* ------------------------------------------------------------------ *)
(* IP pool                                                              *)
(* ------------------------------------------------------------------ *)

RECURSIVE Pow2(_)
Pow2(n) == IF n = 0 THEN 1 ELSE 2 * Pow2(n - 1)

\* The addresses of the CIDR, as offsets from its network address.
CidrAddrs == 0..(Pow2(HostBits) - 1)

\* The usable host addresses: all but the network and the broadcast address.
CidrHosts == CidrAddrs \ {0, Pow2(HostBits) - 1}

PoolThreads == 1..NumPoolThreads

\* The least element of a non-empty set of addresses.
MinOf(S) == CHOOSE x \in S : \A y \in S : x <= y

\* acquire's linear scan: the first free IP, 0 when none is free.
FirstFree(free) == IF free = {} THEN 0 ELSE MinOf(free)

PoolInit ==
    /\ poolFree = CidrHosts
    /\ poolAlloc = {}
    /\ poolMu = 0
    /\ plPc = [t \in PoolThreads |-> "idle"]
    /\ plIp = [t \in PoolThreads |-> 0]
    /\ plGrants = [ip \in CidrHosts |-> 0]
    /\ plReleased = {}
    /\ plFailed = FALSE
    /\ plNoop = FALSE

\* Mutant of PoolLock: the operation proceeds without taking the mutex.
PoolLockNoMutex(t) == poolMu' = poolMu

\* mu.Lock() at the head of acquire and release.
PoolLock(t) == poolMu = 0 /\ poolMu' = t

\* acquire(), entry: take the mutex.
PoolAcquireBegin(t) ==
    /\ plPc[t] = "idle"
    /\ PoolLock(t)
    /\ plPc' = [plPc EXCEPT ![t] = "acq"]
    /\ UNCHANGED <<poolFree, poolAlloc, plIp, plGrants, plReleased, plFailed, plNoop>>

\* acquire(), the scan for the first free slot.
PoolAcquireScan(t) ==
    /\ plPc[t] = "acq"
    /\ plIp' = [plIp EXCEPT ![t] = FirstFree(poolFree)]
    /\ plPc' = [plPc EXCEPT ![t] = "scanned"]
    /\ UNCHANGED <<poolFree, poolAlloc, poolMu, plGrants, plReleased, plFailed, plNoop>>

\* acquire(), the end: mark the slot allocated and return it, or fail with
\* POOL_EXHAUSTED; the mutex is released.
PoolAcquireEnd(t) ==
    /\ plPc[t] = "scanned"
    /\ IF plIp[t] = 0
       THEN /\ plFailed' = TRUE
            /\ UNCHANGED <<poolFree, poolAlloc, plGrants>>
       ELSE /\ poolFree' = poolFree \ {plIp[t]}
            /\ poolAlloc' = poolAlloc \cup {plIp[t]}
            /\ plGrants' = [plGrants EXCEPT ![plIp[t]] = Min(2, @ + 1)]
            /\ UNCHANGED plFailed
    /\ poolMu' = IF poolMu = t THEN 0 ELSE poolMu
    /\ plPc' = [plPc EXCEPT ![t] = "idle"]
    /\ plIp' = [plIp EXCEPT ![t] = 0]
    /\ UNCHANGED <<plReleased, plNoop>>

\* release(ip), entry: take the mutex.
PoolReleaseBegin(t, ip) ==
    /\ plPc[t] = "idle"
    /\ PoolLock(t)
    /\ plPc' = [plPc EXCEPT ![t] = "rel"]
    /\ plIp' = [plIp EXCEPT ![t] = ip]
    /\ UNCHANGED <<poolFree, poolAlloc, plGrants, plReleased, plFailed, plNoop>>

\* Mutant of PoolReturn: the IP is put on the free set whether or not it was
\* allocated.
PoolReturnUnchecked(free, alloc, ip) == [free |-> free \cup {ip}, alloc |-> alloc \ {ip}]

\* release's effect on the two sets: an allocated IP becomes free, any other IP
\* changes nothing.
PoolReturn(free, alloc, ip) ==
    IF ip \in alloc
    THEN [free |-> free \cup {ip}, alloc |-> alloc \ {ip}]
    ELSE [free |-> free, alloc |-> alloc]

\* release(ip), the end: return the IP and release the mutex.
PoolReleaseEnd(t) ==
    /\ plPc[t] = "rel"
    /\ poolFree' = PoolReturn(poolFree, poolAlloc, plIp[t]).free
    /\ poolAlloc' = PoolReturn(poolFree, poolAlloc, plIp[t]).alloc
    /\ plGrants' = [ip \in CidrHosts |-> IF ip = plIp[t] THEN 0 ELSE plGrants[ip]]
    /\ plReleased' = IF plIp[t] \in poolAlloc THEN plReleased \cup {plIp[t]} ELSE plReleased
    /\ plNoop' = (plNoop \/ plIp[t] \notin poolAlloc)
    /\ poolMu' = IF poolMu = t THEN 0 ELSE poolMu
    /\ plPc' = [plPc EXCEPT ![t] = "idle"]
    /\ plIp' = [plIp EXCEPT ![t] = 0]
    /\ UNCHANGED plFailed

(* ------------------------------------------------------------------ *)
(* Connection registry, sweeper and DNS allocation                      *)
(* ------------------------------------------------------------------ *)

DnsThreads == 1..NumDns

\* Hostnames matching a forward-domain pattern.
Hostnames == {"a.svc", "b.svc"}

\* The cluster resolver's first address for a hostname.
RealIP(h) == IF h = "a.svc" THEN "10.43.0.1" ELSE "10.43.0.2"

NoAnswer == [rcode |-> "none", ip |-> 0]

\* The pool's sets and ghosts, unchanged by a registry step that does not touch
\* the pool; the registry is the pool's only caller, so the pool mutex is never
\* contended and its per-caller state stays idle.
PoolIdle == UNCHANGED <<poolMu, plPc, plIp, plGrants, plReleased, plFailed, plNoop>>
PoolSame == UNCHANGED <<poolFree, poolAlloc>> /\ PoolIdle

RegInit ==
    /\ regEntries = <<>>
    /\ regMu = 0
    /\ now = 0
    /\ nextSweep = CleanupInterval
    /\ swPc = "idle"
    /\ swTodo = {}
    /\ swStale = {}
    /\ swReleased = FALSE
    /\ swEarly = FALSE
    /\ swLooked = FALSE
    /\ swSpared = FALSE
    /\ regTouch = [ip \in CidrHosts |-> 0]
    /\ regLooked = {}
    /\ dnsPc = [t \in DnsThreads |-> "idle"]
    /\ dnsHost = [t \in DnsThreads |-> ""]
    /\ dnsReal = [t \in DnsThreads |-> ""]
    /\ dnsIp = [t \in DnsThreads |-> 0]
    /\ dnsAns = [t \in DnsThreads |-> NoAnswer]
    /\ dnsExhausted = [t \in DnsThreads |-> FALSE]
    /\ ansAt = [ip \in CidrHosts |-> -1]

\* The map without the entry of ip.
Without(m, ip) == [x \in (DOMAIN m) \ {ip} |-> m[x]]

\* The map with the entry of ip set to e.
With(m, ip, e) == [x \in (DOMAIN m) \cup {ip} |-> IF x = ip THEN e ELSE m[x]]

\* A handler is between taking the registry mutex and writing its response:
\* these steps take no time at the clock's granularity.
DnsBusy == \E t \in DnsThreads : dnsPc[t] \in {"acquire", "insert", "answer"}

\* The clock advances. A sweep, like a handler's critical section, takes no
\* time at the clock's granularity.
Tick ==
    /\ now + TickStep <= MaxTime
    /\ ~DnsBusy
    /\ swPc = "idle"
    /\ now' = now + TickStep
    /\ ansAt' = [ip \in CidrHosts |->
                    IF now' > ansAt[ip] + UnusedTimeout THEN -1 ELSE ansAt[ip]]
    /\ UNCHANGED <<regEntries, regMu, nextSweep, swPc, swTodo, swStale, swReleased,
                   swEarly, swLooked, swSpared, regTouch, regLooked, dnsPc, dnsHost,
                   dnsReal, dnsIp, dnsAns, dnsExhausted>>
    /\ PoolSame

\* A matched A query arrives: the handler calls the tunnel's resolver RPC.
DnsQuery(t, h) ==
    /\ dnsPc[t] = "idle"
    /\ dnsPc' = [dnsPc EXCEPT ![t] = "resolve"]
    /\ dnsHost' = [dnsHost EXCEPT ![t] = h]
    /\ dnsAns' = [dnsAns EXCEPT ![t] = NoAnswer]
    /\ dnsExhausted' = [dnsExhausted EXCEPT ![t] = FALSE]
    /\ UNCHANGED <<regEntries, regMu, now, nextSweep, swPc, swTodo, swStale, swReleased, swEarly, swLooked,
                   swSpared, regTouch, regLooked, dnsReal, dnsIp, ansAt>>
    /\ PoolSame

\* The resolver RPC fails: the handler answers SERVFAIL.
DnsResolveFail(t) ==
    /\ dnsPc[t] = "resolve"
    /\ dnsPc' = [dnsPc EXCEPT ![t] = "idle"]
    /\ dnsAns' = [dnsAns EXCEPT ![t] = [rcode |-> "SERVFAIL", ip |-> 0]]
    /\ dnsHost' = [dnsHost EXCEPT ![t] = ""]
    /\ UNCHANGED <<regEntries, regMu, now, nextSweep, swPc, swTodo, swStale, swReleased,
                   swEarly, swLooked, swSpared, regTouch, regLooked, dnsReal, dnsIp,
                   dnsExhausted, ansAt>>
    /\ PoolSame

\* The resolver RPC succeeds: take the first address and enter
\* Registry.allocate, which takes the registry mutex.
DnsResolveOk(t) ==
    /\ dnsPc[t] = "resolve"
    /\ regMu = 0
    /\ regMu' = t
    /\ dnsReal' = [dnsReal EXCEPT ![t] = RealIP(dnsHost[t])]
    /\ dnsPc' = [dnsPc EXCEPT ![t] = "acquire"]
    /\ UNCHANGED <<regEntries, now, nextSweep, swPc, swTodo, swStale, swReleased, swEarly, swLooked, swSpared,
                   regTouch, regLooked, dnsHost, dnsIp, dnsAns, dnsExhausted, ansAt>>
    /\ PoolSame

\* Registry.allocate releases the registry mutex on return.
AllocUnlock(t) == regMu' = 0

\* Mutant of AllocLockHeld: the pool is used outside the registry mutex.
AllocLockDropped(t) == regMu' = 0

\* Registry.allocate keeps the registry mutex between acquire and insert.
AllocLockHeld(t) == regMu' = regMu

\* Mutant of AllocExhausted: make room by evicting the least recently used entry.
AllocEvictOldest(t) ==
    LET victim == CHOOSE ip \in DOMAIN regEntries :
                      \A x \in DOMAIN regEntries :
                          regEntries[ip].lastUsed <= regEntries[x].lastUsed
    IN  /\ regEntries' = Without(regEntries, victim)
        /\ poolFree' = poolFree \cup {victim}
        /\ poolAlloc' = poolAlloc \ {victim}
        /\ regLooked' = regLooked \ {victim}

\* Registry.allocate with the pool exhausted: nothing changes.
AllocExhausted(t) == UNCHANGED <<regEntries, poolFree, poolAlloc, regLooked>>

\* Registry.allocate, pool.acquire() under the registry mutex. On
\* POOL_EXHAUSTED the mutex is released and the handler answers SERVFAIL.
AllocAcquire(t) ==
    /\ dnsPc[t] = "acquire"
    /\ IF FirstFree(poolFree) = 0
       THEN /\ AllocExhausted(t)
            /\ regMu' = 0
            /\ dnsPc' = [dnsPc EXCEPT ![t] = "idle"]
            /\ dnsAns' = [dnsAns EXCEPT ![t] = [rcode |-> "SERVFAIL", ip |-> 0]]
            /\ dnsExhausted' = [dnsExhausted EXCEPT ![t] = TRUE]
            /\ dnsHost' = [dnsHost EXCEPT ![t] = ""]
            /\ dnsReal' = [dnsReal EXCEPT ![t] = ""]
            /\ UNCHANGED dnsIp
       ELSE /\ poolFree' = poolFree \ {FirstFree(poolFree)}
            /\ poolAlloc' = poolAlloc \cup {FirstFree(poolFree)}
            /\ dnsIp' = [dnsIp EXCEPT ![t] = FirstFree(poolFree)]
            /\ dnsPc' = [dnsPc EXCEPT ![t] = "insert"]
            /\ AllocLockHeld(t)
            /\ UNCHANGED <<regEntries, regLooked, dnsAns, dnsExhausted, dnsHost, dnsReal>>
    /\ UNCHANGED <<now, nextSweep, swPc, swTodo, swStale, swReleased, swEarly, swLooked,
                   swSpared, regTouch, ansAt>>
    /\ PoolIdle

\* Registry.allocate, the insert: {proxyIP -> entry} with lastUsed = now, then
\* the mutex is released and allocate returns the proxy IP.
AllocInsert(t) ==
    /\ dnsPc[t] = "insert"
    /\ regEntries' = With(regEntries, dnsIp[t],
                          [host |-> dnsHost[t], real |-> dnsReal[t], lastUsed |-> now])
    /\ regTouch' = [regTouch EXCEPT ![dnsIp[t]] = now]
    /\ regLooked' = regLooked \ {dnsIp[t]}
    /\ AllocUnlock(t)
    /\ dnsPc' = [dnsPc EXCEPT ![t] = "answer"]
    /\ UNCHANGED <<now, nextSweep, swPc, swTodo, swStale, swReleased, swEarly, swLooked, swSpared, dnsHost,
                   dnsReal, dnsIp, dnsAns, dnsExhausted, ansAt>>
    /\ PoolSame

\* The handler writes the response: one A record carrying the proxy IP.
DnsAnswer(t) ==
    /\ dnsPc[t] = "answer"
    /\ dnsAns' = [dnsAns EXCEPT ![t] = [rcode |-> "NOERROR", ip |-> dnsIp[t]]]
    /\ ansAt' = [ansAt EXCEPT ![dnsIp[t]] = now]
    /\ dnsPc' = [dnsPc EXCEPT ![t] = "idle"]
    /\ dnsIp' = [dnsIp EXCEPT ![t] = 0]
    /\ dnsHost' = [dnsHost EXCEPT ![t] = ""]
    /\ dnsReal' = [dnsReal EXCEPT ![t] = ""]
    /\ UNCHANGED <<regEntries, regMu, now, nextSweep, swPc, swTodo, swStale, swReleased,
                   swEarly, swLooked, swSpared, regTouch, regLooked, dnsExhausted>>
    /\ PoolSame

\* Mutant of Refreshed: a lookup leaves lastUsed as it was.
NotRefreshed(e) == e

\* lookup's refresh of the entry found: lastUsed = now.
Refreshed(e) == [e EXCEPT !.lastUsed = now]

\* Registry.lookup(proxyIP), under the registry mutex: the entry, refreshed, or
\* NOT_FOUND.
Lookup(ip) ==
    /\ regMu = 0
    /\ IF ip \in DOMAIN regEntries
       THEN /\ regEntries' = [regEntries EXCEPT ![ip] = Refreshed(@)]
            /\ regTouch' = [regTouch EXCEPT ![ip] = now]
            /\ regLooked' = regLooked \cup {ip}
       ELSE UNCHANGED <<regEntries, regTouch, regLooked>>
    /\ UNCHANGED <<regMu, now, nextSweep, swPc, swTodo, swStale, swReleased, swEarly, swLooked, swSpared, dnsPc,
                   dnsHost, dnsReal, dnsIp, dnsAns, dnsExhausted, ansAt>>
    /\ PoolSame

\* Mutant of SweepExpired: the entry is judged against the cleanup interval.
SweepExpiredEarly(ip) == now - regEntries[ip].lastUsed >= CleanupInterval

\* The sweeper's test: now - lastUsed >= unused-timeout.
SweepExpired(ip) == now - regEntries[ip].lastUsed >= UnusedTimeout

\* The sweeper's ticker fires: a sweep over the current entries begins.
SweepStart ==
    /\ swPc = "idle"
    /\ now >= nextSweep
    /\ regMu = 0
    /\ nextSweep' = now + CleanupInterval
    /\ swTodo' = DOMAIN regEntries
    /\ swStale' = {ip \in DOMAIN regEntries : now - regTouch[ip] >= UnusedTimeout}
    /\ swPc' = IF DOMAIN regEntries = {} THEN "idle" ELSE "sweeping"
    /\ UNCHANGED <<regEntries, regMu, now, swReleased, swEarly, swLooked, swSpared, regTouch, regLooked, dnsPc,
                   dnsHost, dnsReal, dnsIp, dnsAns, dnsExhausted, ansAt>>
    /\ PoolSame

\* Mutant of SweepJudge: the sweep releases every entry it visits.
SweepJudgeAll(ip) == TRUE

\* Mutant of SweepJudge: the sweep releases what was expired when it began.
SweepJudgeStale(ip) == ip \in swStale

\* The sweep's decision on an entry, taken under the mutex when it is visited.
SweepJudge(ip) == SweepExpired(ip)

\* The sweep visits one entry under the registry mutex: an expired entry is
\* removed and its IP returned to the pool, any other is left alone.
SweepVisit(ip) ==
    /\ swPc = "sweeping"
    /\ ip \in swTodo
    /\ regMu = 0
    /\ IF ip \in DOMAIN regEntries /\ SweepJudge(ip)
       THEN /\ regEntries' = Without(regEntries, ip)
            /\ poolFree' = PoolReturn(poolFree, poolAlloc, ip).free
            /\ poolAlloc' = PoolReturn(poolFree, poolAlloc, ip).alloc
            /\ swReleased' = TRUE
            /\ swEarly' = (swEarly \/ now - regTouch[ip] < UnusedTimeout)
            /\ swLooked' = (swLooked \/ ip \in regLooked)
            /\ regLooked' = regLooked \ {ip}
            /\ regTouch' = [regTouch EXCEPT ![ip] = 0]
            /\ UNCHANGED swSpared
       ELSE /\ swSpared' = (swSpared \/ (ip \in swStale /\ ip \in DOMAIN regEntries))
            /\ UNCHANGED <<regEntries, poolFree, poolAlloc, swReleased, swEarly,
                           swLooked, regLooked, regTouch>>
    /\ swTodo' = swTodo \ {ip}
    /\ swPc' = IF swTodo = {ip} THEN "idle" ELSE "sweeping"
    /\ swStale' = IF swTodo = {ip} THEN {} ELSE swStale
    /\ UNCHANGED <<regMu, now, nextSweep, dnsPc, dnsHost, dnsReal, dnsIp, dnsAns,
                   dnsExhausted, ansAt>>
    /\ PoolIdle

\* Mutant of ReleaseEntry: the entry is removed but its IP stays allocated.
ReleaseEntryOnly(ip) ==
    /\ regEntries' = Without(regEntries, ip)
    /\ UNCHANGED <<poolFree, poolAlloc>>

\* release's effect on an existing entry: remove it and return its IP.
ReleaseEntry(ip) ==
    /\ regEntries' = Without(regEntries, ip)
    /\ poolFree' = PoolReturn(poolFree, poolAlloc, ip).free
    /\ poolAlloc' = PoolReturn(poolFree, poolAlloc, ip).alloc

\* Registry.release(proxyIP), under the registry mutex; idempotent.
Release(ip) ==
    /\ regMu = 0
    /\ IF ip \in DOMAIN regEntries
       THEN /\ ReleaseEntry(ip)
            /\ regLooked' = regLooked \ {ip}
            /\ regTouch' = [regTouch EXCEPT ![ip] = 0]
            /\ ansAt' = [ansAt EXCEPT ![ip] = -1]
       ELSE UNCHANGED <<regEntries, poolFree, poolAlloc, regLooked, regTouch, ansAt>>
    /\ UNCHANGED <<regMu, now, nextSweep, swPc, swTodo, swStale, swReleased, swEarly,
                   swLooked, swSpared, dnsPc, dnsHost, dnsReal, dnsIp, dnsAns,
                   dnsExhausted>>
    /\ PoolIdle

(* ------------------------------------------------------------------ *)
(* DNS interceptor: pattern matching and the query handler              *)
(* ------------------------------------------------------------------ *)

\* Labels as they arrive in a query name, and their lower-case form.
RawLabels == {"A", "b", "c"}
Lower(l) == IF l = "A" THEN "a" ELSE l

\* Sequences over S of length 1..n.
SeqsUpTo(S, n) == UNION {[1..k -> S] : k \in 1..n}

\* Query names: up to MaxLabels labels, with or without a trailing dot (an
\* empty last label).
QueryNames ==
    SeqsUpTo(RawLabels, MaxLabels)
        \cup {Append(q, "") : q \in SeqsUpTo(RawLabels, MaxLabels)}

QueryTypes == {"A", "AAAA", "TXT"}

\* The configured patterns: "*", "*.suffix", "**.suffix" and literal names.
PatternSet ==
    {<<"*">>, <<"*", "c">>, <<"*", "b", "c">>, <<"**", "c">>, <<"**", "b", "c">>,
     <<"a", "b", "c">>, <<"b", "c">>}

PatternLists == {<<>>} \cup SeqsUpTo(PatternSet, MaxPatterns)

\* Step 1 of the handler: strip the trailing dot, lower-case.
StripDot(q) == IF Len(q) > 0 /\ q[Len(q)] = "" THEN SubSeq(q, 1, Len(q) - 1) ELSE q
Normalise(q) == [i \in 1..Len(StripDot(q)) |-> Lower(StripDot(q)[i])]

\* h with its first n labels removed.
RECURSIVE DropLabels(_, _)
DropLabels(h, n) == IF n = 0 \/ h = <<>> THEN h ELSE DropLabels(Tail(h), n - 1)

\* h ends in ".suffix" at some depth: some non-empty run of leading labels can
\* be removed to leave the suffix.
RECURSIVE EndsInAtDepth(_, _)
EndsInAtDepth(h, suffix) ==
    IF Len(h) <= Len(suffix) THEN FALSE
    ELSE Tail(h) = suffix \/ EndsInAtDepth(Tail(h), suffix)

\* Mutant of MatchOne: "*.suffix" matches at any depth.
MatchOneAnyDepth(h, suffix) == EndsInAtDepth(h, suffix)

\* "*.suffix": exactly one label in front of the suffix.
MatchOne(h, suffix) == h # <<>> /\ Tail(h) = suffix

\* The match predicate of one pattern on a normalised name.
Match(p, h) ==
    IF p = <<"*">> THEN TRUE
    ELSE IF Head(p) = "*" THEN MatchOne(h, Tail(p))
    ELSE IF Head(p) = "**" THEN EndsInAtDepth(h, Tail(p))
    ELSE h = p

\* Step 2 of the handler: evaluate the patterns in order, first match wins;
\* 0 when none matches.
RECURSIVE FirstMatchFrom(_, _, _)
FirstMatchFrom(P, h, i) ==
    IF i > Len(P) THEN 0
    ELSE IF Match(P[i], h) THEN i
    ELSE FirstMatchFrom(P, h, i + 1)

FirstMatch(P, h) == FirstMatchFrom(P, h, 1)

NoResp == [rcode |-> "none", answers |-> 0, via |-> "none"]

DqInit ==
    /\ dqPc = "new"
    /\ dqPatterns = <<>>
    /\ dqName = <<>>
    /\ dqType = "A"
    /\ dqIdx = 0
    /\ dqResp = NoResp

\* The server is built with the forward-domain patterns.
DqConfigure(P) ==
    /\ dqPc = "new"
    /\ dqPatterns' = P
    /\ dqPc' = "idle"
    /\ UNCHANGED <<dqName, dqType, dqIdx, dqResp>>

\* A query arrives.
DqArrive(q, ty) ==
    /\ dqPc = "idle"
    /\ dqName' = q
    /\ dqType' = ty
    /\ dqPc' = "arrived"
    /\ UNCHANGED <<dqPatterns, dqIdx, dqResp>>

\* Steps 3 and 6: forward unchanged upstream, the upstream's response is
\* returned verbatim.
Forwarded(rcode, n) == [rcode |-> rcode, answers |-> n, via |-> "upstream"]

\* Step 4: the tunnel's resolver and the registry give one A record, or SERVFAIL.
AnswerA(ok) ==
    IF ok THEN [rcode |-> "NOERROR", answers |-> 1, via |-> "tunnel"]
    ELSE [rcode |-> "SERVFAIL", answers |-> 0, via |-> "tunnel"]

\* Mutant of AnswerAAAA: the AAAA query is answered NXDOMAIN.
AnswerAAAANxdomain == [rcode |-> "NXDOMAIN", answers |-> 0, via |-> "local"]

\* Step 5: NOERROR with no answer records.
AnswerAAAA == [rcode |-> "NOERROR", answers |-> 0, via |-> "local"]

\* The upstream resolver's possible responses.
UpstreamResponses ==
    {Forwarded("NOERROR", 1), Forwarded("NOERROR", 0), Forwarded("NXDOMAIN", 0)}

\* The handler, steps 1 to 6.
DqHandle ==
    /\ dqPc = "arrived"
    /\ dqIdx' = FirstMatch(dqPatterns, Normalise(dqName))
    /\ IF dqIdx' = 0 THEN dqResp' \in UpstreamResponses
       ELSE IF dqType = "A" THEN \E ok \in BOOLEAN : dqResp' = AnswerA(ok)
       ELSE IF dqType = "AAAA" THEN dqResp' = AnswerAAAA
       ELSE dqResp' \in UpstreamResponses
    /\ dqPc' = "done"
    /\ UNCHANGED <<dqPatterns, dqName, dqType>>

\* The handler returns; the server waits for the next query.
DqReturn ==
    /\ dqPc = "done"
    /\ dqPc' = "idle"
    /\ dqName' = <<>>
    /\ dqType' = "A"
    /\ dqIdx' = 0
    /\ dqResp' = NoResp
    /\ UNCHANGED dqPatterns

(* ------------------------------------------------------------------ *)
(* WSServer: client/server pairing by connection key                    *)
(* ------------------------------------------------------------------ *)

WsClients == 1..NumClients
WsServers == 1..NumServers

\* The connection key generated for a client registration: 16 random bytes,
\* distinct for distinct registrations.
ConnKey(c) == c

\* The connection_key values a server registration may carry: empty (0), a
\* key no client has, or a client's key once a POST has disclosed it (the keys
\* are random and leave the relay only in the POST).
ServerKeys == {0, NumClients + 1} \cup {wsPostKey[c] : c \in WsClients}

WsInit ==
    /\ clPc = [c \in WsClients |-> "idle"]
    /\ clErr = [c \in WsClients |-> "none"]
    /\ wsPending = <<>>
    /\ wsReady = [c \in WsClients |-> 0]
    /\ wsDone = [c \in WsClients |-> FALSE]
    /\ wsTimedOut = [c \in WsClients |-> FALSE]
    /\ wsPostKey = [c \in WsClients |-> 0]
    /\ wsPostPending = [c \in WsClients |-> FALSE]
    /\ srvPc = [s \in WsServers |-> "idle"]
    /\ srvKey = [s \in WsServers |-> 0]
    /\ srvErr = [s \in WsServers |-> "none"]
    /\ srvPeer = [s \in WsServers |-> 0]
    /\ wsRelayed = {}

\* The deferred Compute of handleClientRegistration: delete the entry of the key
\* only if it is still this client's.
DeleteIfSame(m, k, c) == IF k \in DOMAIN m /\ m[k] = c THEN Without(m, k) ELSE m

\* Mutant of PendingKey: the pending entry is stored under the next client's key.
PendingKeyShifted(c) == (ConnKey(c) % NumClients) + 1

\* The key under which handleClientRegistration stores the pending tunnel.
PendingKey(c) == ConnKey(c)

\* handleClientRegistration without function_url: error frame, connection closed.
ClRegisterNoUrl(c) ==
    /\ clPc[c] = "idle"
    /\ clPc' = [clPc EXCEPT ![c] = "closed"]
    /\ clErr' = [clErr EXCEPT ![c] = "nourl"]
    /\ UNCHANGED <<wsPending, wsReady, wsDone, wsTimedOut, wsPostKey, wsPostPending,
                   srvPc, srvKey, srvErr, srvPeer, wsRelayed>>

\* handleClientRegistration up to pendingTunnels.Store: key generated, pairCtx
\* started, pending entry stored.
ClRegister(c) ==
    /\ clPc[c] = "idle"
    /\ wsPending' = With(wsPending, PendingKey(c), c)
    /\ clPc' = [clPc EXCEPT ![c] = "stored"]
    /\ UNCHANGED <<clErr, wsReady, wsDone, wsTimedOut, wsPostKey, wsPostPending,
                   srvPc, srvKey, srvErr, srvPeer, wsRelayed>>

\* notifyDispatcher sends the POST {sandboxUrl, connectionKey}.
ClPost(c) ==
    /\ clPc[c] = "stored"
    /\ clPc' = [clPc EXCEPT ![c] = "posting"]
    /\ wsPostKey' = [wsPostKey EXCEPT ![c] = ConnKey(c)]
    /\ wsPostPending' = [wsPostPending EXCEPT ![c] =
           ConnKey(c) \in DOMAIN wsPending /\ wsPending[ConnKey(c)] = c]
    /\ UNCHANGED <<clErr, wsPending, wsReady, wsDone, wsTimedOut, srvPc, srvKey,
                   srvErr, srvPeer, wsRelayed>>

\* Mutant of NotifyFailed: the handler returns without an error frame.
NotifyFailedSilently(c) == clErr' = clErr

\* notifyDispatcher returned an error: sendError to the client.
NotifyFailed(c) == clErr' = [clErr EXCEPT ![c] = "notify"]

\* notifyDispatcher fails (request error, non-2xx status, pairCtx expired): the
\* handler sends an error frame and returns; the deferred Compute removes the
\* entry and handleTunnel's defer closes the connection. pending.done stays open.
ClPostFail(c) ==
    /\ clPc[c] = "posting"
    /\ NotifyFailed(c)
    /\ wsPending' = DeleteIfSame(wsPending, ConnKey(c), c)
    /\ clPc' = [clPc EXCEPT ![c] = "closed"]
    /\ UNCHANGED <<wsReady, wsDone, wsTimedOut, wsPostKey, wsPostPending, srvPc,
                   srvKey, srvErr, srvPeer, wsRelayed>>

\* notifyDispatcher returns nil: the handler goes on to the select.
ClPostOk(c) ==
    /\ clPc[c] = "posting"
    /\ ~wsTimedOut[c]
    /\ clPc' = [clPc EXCEPT ![c] = "waiting"]
    /\ UNCHANGED <<clErr, wsPending, wsReady, wsDone, wsTimedOut, wsPostKey,
                   wsPostPending, srvPc, srvKey, srvErr, srvPeer, wsRelayed>>

\* pairCtx expires, pairingTimeout after its creation.
WsTimeout(c) ==
    /\ clPc[c] \in {"stored", "posting", "waiting"}
    /\ ~wsTimedOut[c]
    /\ wsTimedOut' = [wsTimedOut EXCEPT ![c] = TRUE]
    /\ UNCHANGED <<clPc, clErr, wsPending, wsReady, wsDone, wsPostKey, wsPostPending,
                   srvPc, srvKey, srvErr, srvPeer, wsRelayed>>

\* The select takes serverConn := <-pending.ready: relayMessages starts.
ClSelectReady(c) ==
    /\ clPc[c] = "waiting"
    /\ wsReady[c] # 0
    /\ clPc' = [clPc EXCEPT ![c] = "relaying"]
    /\ UNCHANGED <<clErr, wsPending, wsReady, wsDone, wsTimedOut, wsPostKey,
                   wsPostPending, srvPc, srvKey, srvErr, srvPeer, wsRelayed>>

\* The select takes <-pairCtx.Done(): error frame, close(pending.done), then the
\* deferred Compute and the close of the connection.
ClSelectTimeout(c) ==
    /\ clPc[c] = "waiting"
    /\ wsTimedOut[c]
    /\ clErr' = [clErr EXCEPT ![c] = "timeout"]
    /\ wsDone' = [wsDone EXCEPT ![c] = TRUE]
    /\ wsPending' = DeleteIfSame(wsPending, ConnKey(c), c)
    /\ clPc' = [clPc EXCEPT ![c] = "closed"]
    /\ UNCHANGED <<wsReady, wsTimedOut, wsPostKey, wsPostPending, srvPc, srvKey,
                   srvErr, srvPeer, wsRelayed>>

\* relayMessages(wsConn, serverConn) forwards one message, in either direction,
\* between the client connection and the connection received from ready.
RelayMsg(c) ==
    /\ clPc[c] = "relaying"
    /\ wsRelayed' = wsRelayed \cup {<<c, wsReady[c]>>}
    /\ UNCHANGED <<clPc, clErr, wsPending, wsReady, wsDone, wsTimedOut, wsPostKey,
                   wsPostPending, srvPc, srvKey, srvErr, srvPeer>>

\* relayMessages returns (one direction ended): close(pending.done), then the
\* deferred Compute and the close of the connection.
ClRelayEnd(c) ==
    /\ clPc[c] = "relaying"
    /\ wsDone' = [wsDone EXCEPT ![c] = TRUE]
    /\ wsPending' = DeleteIfSame(wsPending, ConnKey(c), c)
    /\ clPc' = [clPc EXCEPT ![c] = "closed"]
    /\ UNCHANGED <<clErr, wsReady, wsTimedOut, wsPostKey, wsPostPending, srvPc,
                   srvKey, srvErr, srvPeer, wsRelayed>>

\* Mutant of PendingFor: any pending client is taken, whatever its key.
PendingAny(m, k) == IF DOMAIN m = {} THEN 0 ELSE m[MinOf(DOMAIN m)]

\* pendingTunnels.LoadAndDelete(connectionKey): the client pending under the key,
\* 0 when there is none.
PendingFor(m, k) == IF k \in DOMAIN m THEN m[k] ELSE 0

\* Mutant of LoadAndDelete: the entry is loaded but stays in the map.
LoadAndKeep(m, k) == m

\* pendingTunnels.LoadAndDelete(connectionKey): the map without the entry, in
\* the same atomic step as the lookup.
LoadAndDelete(m, k) == Without(m, k)

\* handleServerRegistration: reject an empty key or a key with no pending client;
\* otherwise remove the entry and send the connection to the client's ready
\* channel (error frame if the channel is full).
SrvRegister(s, k) ==
    /\ srvPc[s] = "idle"
    /\ srvKey' = [srvKey EXCEPT ![s] = k]
    /\ IF k = 0
       THEN /\ srvErr' = [srvErr EXCEPT ![s] = "nokey"]
            /\ srvPc' = [srvPc EXCEPT ![s] = "closed"]
            /\ UNCHANGED <<wsPending, wsReady, srvPeer>>
       ELSE IF PendingFor(wsPending, k) = 0
       THEN /\ srvErr' = [srvErr EXCEPT ![s] = "nopending"]
            /\ srvPc' = [srvPc EXCEPT ![s] = "closed"]
            /\ UNCHANGED <<wsPending, wsReady, srvPeer>>
       ELSE LET c == PendingFor(wsPending, k)
            IN  /\ wsPending' = LoadAndDelete(wsPending, k)
                /\ IF wsReady[c] = 0
                   THEN /\ wsReady' = [wsReady EXCEPT ![c] = s]
                        /\ srvPeer' = [srvPeer EXCEPT ![s] = c]
                        /\ srvPc' = [srvPc EXCEPT ![s] = "handed"]
                        /\ UNCHANGED srvErr
                   ELSE /\ srvErr' = [srvErr EXCEPT ![s] = "pairfail"]
                        /\ srvPc' = [srvPc EXCEPT ![s] = "closed"]
                        /\ UNCHANGED <<wsReady, srvPeer>>
    /\ UNCHANGED <<clPc, clErr, wsDone, wsTimedOut, wsPostKey, wsPostPending,
                   wsRelayed>>

\* The server handler's <-pending.done returns: the handler exits and its
\* connection is closed.
SrvDone(s) ==
    /\ srvPc[s] = "handed"
    /\ wsDone[srvPeer[s]]
    /\ srvPc' = [srvPc EXCEPT ![s] = "closed"]
    /\ UNCHANGED <<clPc, clErr, wsPending, wsReady, wsDone, wsTimedOut, wsPostKey,
                   wsPostPending, srvKey, srvErr, srvPeer, wsRelayed>>

(* ------------------------------------------------------------------ *)
(* The accept loops                                                     *)
(* ------------------------------------------------------------------ *)

\* netutil.AcceptLoop, tcpProxy.Serve as runConnect runs it, and the
\* interceptor's runTransparentProxy.
Loops == {"AcceptLoop", "Serve", "TransparentProxy"}

AlInit ==
    /\ alCtx = [k \in Loops |-> FALSE]
    /\ alLn = [k \in Loops |-> TRUE]
    /\ alPc = [k \in Loops |-> "accept"]
    /\ alCount = [k \in Loops |-> 0]
    /\ alWatch = "wait"
    /\ alSig = "wait"

\* The loop's context is cancelled: by the caller of AcceptLoop, by the signal
\* context of runConnect, or by cancel() in the interceptor's signal goroutine.
AlCancel(k) ==
    /\ ~alCtx[k]
    /\ alCtx' = [alCtx EXCEPT ![k] = TRUE]
    /\ alSig' = IF k = "TransparentProxy" THEN "cancelled" ELSE alSig
    /\ UNCHANGED <<alLn, alPc, alCount, alWatch>>

\* AcceptLoop's goroutine: <-ctx.Done(); ln.Close().
AlWatchClose ==
    /\ alWatch = "wait"
    /\ alCtx["AcceptLoop"]
    /\ alWatch' = "done"
    /\ alLn' = [alLn EXCEPT !["AcceptLoop"] = FALSE]
    /\ UNCHANGED <<alCtx, alPc, alCount, alSig>>

\* The interceptor's signal goroutine after cancel(): cleanup() closes
\* i.listener, then os.Exit(0) ends the process and the loop with it.
AlSigCleanup ==
    /\ alSig = "cancelled"
    /\ alSig' = "cleaned"
    /\ alLn' = [alLn EXCEPT !["TransparentProxy"] = FALSE]
    /\ UNCHANGED <<alCtx, alPc, alCount, alWatch>>

AlSigExit ==
    /\ alSig = "cleaned"
    /\ alSig' = "exited"
    /\ alPc' = [alPc EXCEPT !["TransparentProxy"] =
                    IF @ = "accept" THEN "exited" ELSE @]
    /\ UNCHANGED <<alCtx, alLn, alCount, alWatch>>

\* tcpProxy.Shutdown(): p.listener.Close().
AlShutdown ==
    /\ alLn["Serve"]
    /\ alLn' = [alLn EXCEPT !["Serve"] = FALSE]
    /\ UNCHANGED <<alCtx, alPc, alCount, alWatch, alSig>>

\* Accept returns a connection and the loop starts its handler.
AlAccept(k) ==
    /\ alPc[k] = "accept"
    /\ alLn[k]
    /\ alCount[k] < MaxAccepts
    /\ alCount' = [alCount EXCEPT ![k] = @ + 1]
    /\ UNCHANGED <<alCtx, alLn, alPc, alWatch, alSig>>

\* Accept returned an error. AcceptLoop and runTransparentProxy return; Serve
\* returns when its context is done and otherwise logs and accepts again.
AlOnError(k) ==
    /\ alPc' = [alPc EXCEPT ![k] =
                    IF k = "Serve" /\ ~alCtx[k] THEN "accept" ELSE "returned"]
    /\ UNCHANGED <<alCtx, alLn, alCount, alWatch, alSig>>

\* Accept on a closed listener fails.
AlAcceptClosed(k) ==
    /\ alPc[k] = "accept"
    /\ ~alLn[k]
    /\ AlOnError(k)

\* Accept on an open listener fails for another reason.
AlAcceptTransient(k) ==
    /\ alPc[k] = "accept"
    /\ alLn[k]
    /\ AlOnError(k)

(* ------------------------------------------------------------------ *)
(* The websocket connection of WSDialer and its ping loop               *)
(* ------------------------------------------------------------------ *)

\* time.NewTicker(30 * time.Second) and the deadline handed to WriteControl,
\* time.Now().Add(10 * time.Second), in units of 10 s.
PingInterval == 3
PingWriteWait == 1

\* Dial has returned: the connection is open and pingLoop waits for the
\* ticker's first firing.
PgInit ==
    /\ pgNow = 0
    /\ pgNext = PingInterval
    /\ pgPc = "loop"
    /\ pgClosed = FALSE
    /\ pgAwait = -1
    /\ pgLastIO = "none"

\* Time passes; a running pingLoop takes a due tick before the clock moves on.
PgTick ==
    /\ pgNow < MaxPingTime
    /\ pgPc = "loop" => pgNow < pgNext
    /\ pgNow' = pgNow + 1
    /\ UNCHANGED <<pgNext, pgPc, pgClosed, pgAwait, pgLastIO>>

\* WriteControl(PingMessage) succeeded; the ticker fires again an interval
\* later. Nothing is armed to wait for the pong.
PgPingSent ==
    /\ pgNext' = pgNow + PingInterval
    /\ pgAwait' = IF pgAwait = -1 THEN pgNow ELSE pgAwait
    /\ UNCHANGED <<pgPc, pgClosed>>

\* One iteration of pingLoop: return if closed; write the ping; return if the
\* write failed (the connection itself is not closed by the loop).
PgPing ==
    /\ pgPc = "loop"
    /\ pgNow = pgNext
    /\ IF pgClosed
          THEN pgPc' = "returned" /\ UNCHANGED <<pgNext, pgClosed, pgAwait>>
          ELSE \/ PgPingSent
               \/ pgPc' = "returned" /\ UNCHANGED <<pgNext, pgClosed, pgAwait>>
    /\ UNCHANGED <<pgNow, pgLastIO>>

\* The peer's pong arrives; the connection has no pong handler of its own, so
\* nothing of wsConn changes.
PgPong ==
    /\ pgAwait # -1
    /\ ~pgClosed
    /\ pgAwait' = -1
    /\ UNCHANGED <<pgNow, pgNext, pgPc, pgClosed, pgLastIO>>

\* wsConn.Close.
PgClose ==
    /\ ~pgClosed
    /\ pgClosed' = TRUE
    /\ UNCHANGED <<pgNow, pgNext, pgPc, pgAwait, pgLastIO>>

\* wsConn.Read or wsConn.Write returns: an error when closed, otherwise what
\* the websocket connection returns.
PgReadWrite ==
    /\ pgLastIO' \in (IF pgClosed THEN {"err"} ELSE {"ok", "err"})
    /\ pgLastIO' # pgLastIO
    /\ UNCHANGED <<pgNow, pgNext, pgPc, pgClosed, pgAwait>>

(* ------------------------------------------------------------------ *)
(* The intercept command and the resolver file                          *)
(* ------------------------------------------------------------------ *)

\* Lines a resolver file may hold, each as its whitespace-separated fields,
\* and the files of up to MaxResolvLines lines; the file may also be missing.
ResolvLines ==
    {<<"nameserver", "127.0.0.1">>, <<"nameserver", "10.0.0.2">>,
     <<"search", "svc">>, <<"nameserver">>}

ResolvFiles == UNION {[1..n -> ResolvLines] : n \in 0..MaxResolvLines}

\* The intercept command has not been started.
RcInit ==
    /\ rcPc = "start"
    /\ rcFwd = FALSE
    /\ rcFile = {}
    /\ rcSaved = {}
    /\ rcOrig = {}
    /\ rcPrepended = FALSE
    /\ rcUpstream = ""

\* doIntercept is called with or without forward domains, the resolver file
\* being whatever it is; it parses its flags, connects and starts the tunnel.
RcStart(fwd, file) ==
    /\ rcPc = "start"
    /\ rcPc' = "dns"
    /\ rcFwd' = fwd
    /\ rcFile' = file
    /\ rcOrig' = file
    /\ UNCHANGED <<rcSaved, rcPrepended, rcUpstream>>

\* fmt.Sprintf("nameserver %s\n%s", nameserverIP, original).
Prepend(ns, original) == <<<<"nameserver", ns>>>> \o original

\* The answer of readOriginalNameserver when the file cannot be read or names
\* no nameserver.
DefaultNameserver == "8.8.8.8:53"

\* The loop of readOriginalNameserver from line i on: the first line with at
\* least two fields whose first field is "nameserver" gives fields[1] + ":53".
RECURSIVE NameserverFrom(_, _)
NameserverFrom(lines, i) ==
    IF i > Len(lines) THEN DefaultNameserver
    ELSE IF Len(lines[i]) >= 2 /\ lines[i][1] = "nameserver"
         THEN lines[i][2] \o ":53"
         ELSE NameserverFrom(lines, i + 1)

\* Mutant of ReadOriginalNameserver: the file is read after the rewrite.
ReadRewrittenNameserver(file) ==
    IF file = {} THEN DefaultNameserver
    ELSE NameserverFrom(Prepend("127.0.0.1", CHOOSE f \in file : TRUE), 1)

\* readOriginalNameserver on the file as it is now.
ReadOriginalNameserver(file) ==
    IF file = {} THEN DefaultNameserver
    ELSE NameserverFrom(CHOOSE f \in file : TRUE, 1)

\* updateResolvConf: a failed ReadFile returns nil; otherwise the original is
\* returned whether WriteFile succeeds or fails (a failed WriteFile leaves the
\* file as it was or truncated).
UpdateResolvConf(ns) ==
    IF rcFile = {}
       THEN /\ rcSaved' = {}
            /\ UNCHANGED <<rcFile, rcPrepended>>
       ELSE /\ rcSaved' = rcFile
            /\ \/ /\ rcFile' = {Prepend(ns, f) : f \in rcFile}
                  /\ rcPrepended' = TRUE
               \/ /\ rcFile' \in {rcFile, {<<>>}}
                  /\ UNCHANGED rcPrepended

\* restoreResolvConf: nil is left alone, anything else is written back.
RestoreResolvConf(original) ==
    rcFile' = IF original = {} THEN rcFile ELSE original

\* The DNS block of doIntercept: skipped without forward domains; otherwise
\* readOriginalNameserver first, its answer handed to the exchange client;
\* StartDNS may fail (return before any rewrite); otherwise updateResolvConf,
\* whose error is only logged.
RcDns ==
    /\ rcPc = "dns"
    /\ IF ~rcFwd
          THEN /\ rcPc' = "proxy"
               /\ UNCHANGED <<rcFile, rcSaved, rcPrepended, rcUpstream>>
          ELSE \/ /\ rcPc' = "returned"
                  /\ UNCHANGED <<rcFile, rcSaved, rcPrepended, rcUpstream>>
               \/ /\ rcPc' = "proxy"
                  /\ rcUpstream' = ReadOriginalNameserver(rcFile)
                  /\ UpdateResolvConf("127.0.0.1")
    /\ UNCHANGED <<rcFwd, rcOrig>>

\* StartProxy, SetupIptables and the test hook, in that order: each either
\* makes doIntercept return its error or lets it go on.
RcSetup ==
    /\ rcPc \in {"proxy", "iptables", "hook"}
    /\ \/ rcPc' = "returned"
       \/ rcPc' = CASE rcPc = "proxy" -> "iptables"
                     [] rcPc = "iptables" -> "hook"
                     [] rcPc = "hook" -> "run"
    /\ UNCHANGED <<rcFwd, rcFile, rcSaved, rcOrig, rcPrepended, rcUpstream>>

\* proxyComp.Run returns on cancellation; the cleanup restores the file and
\* doIntercept returns nil.
RcShutdown ==
    /\ rcPc = "run"
    /\ rcPc' = "returned"
    /\ RestoreResolvConf(rcSaved)
    /\ UNCHANGED <<rcFwd, rcSaved, rcOrig, rcPrepended, rcUpstream>>

\* doIntercept is called again after it returned: a new process, with
\* originalResolvConf nil, finds the resolver file as the last run left it.
RcRerun(fwd) ==
    /\ rcPc = "returned"
    /\ rcPc' = "dns"
    /\ rcFwd' = fwd
    /\ rcOrig' = rcFile
    /\ rcSaved' = {}
    /\ rcPrepended' = FALSE
    /\ rcUpstream' = ""
    /\ UNCHANGED rcFile

\* The resolver files that do not name the interceptor's own address.
LoopbackLine == <<"nameserver", "127.0.0.1">>

CleanFiles ==
    {{}} \cup {{f} : f \in {g \in ResolvFiles : \A i \in 1..Len(g) : g[i] # LoopbackLine}}

RnInit == rnRuns = 0

(* ------------------------------------------------------------------ *)
(* Redirected connections and the registry                              *)
(* ------------------------------------------------------------------ *)

ProxyIPs == 1..NumProxyIPs

ObInit ==
    /\ obPc = [c \in Conns |-> "idle"]
    /\ obDst = [c \in Conns |-> 0]
    /\ obStream = [c \in Conns |-> FALSE]
    /\ obEntries = {}

\* The DNS side registers a proxy IP; the sweeper or an explicit release
\* removes it.
ObRegister(ip) ==
    /\ ip \notin obEntries
    /\ obEntries' = obEntries \cup {ip}
    /\ UNCHANGED <<obPc, obDst, obStream>>

ObRelease(ip) ==
    /\ ip \in obEntries
    /\ obEntries' = obEntries \ {ip}
    /\ UNCHANGED <<obPc, obDst, obStream>>

\* runTransparentProxy accepts a redirected connection and starts
\* handleOutbound for it.
ObAccept(c) ==
    /\ obPc[c] = "idle"
    /\ obPc' = [obPc EXCEPT ![c] = "origdst"]
    /\ UNCHANGED <<obDst, obStream, obEntries>>

\* getOriginalDst: the proxy IP the application connected to, or an error,
\* on which the handler returns and the connection is closed.
ObOrigDst(c) ==
    /\ obPc[c] = "origdst"
    /\ \/ \E ip \in ProxyIPs :
             /\ obDst' = [obDst EXCEPT ![c] = ip]
             /\ obPc' = [obPc EXCEPT ![c] = "dial"]
       \/ /\ obPc' = [obPc EXCEPT ![c] = "closed"]
          /\ UNCHANGED obDst
    /\ UNCHANGED <<obStream, obEntries>>

\* DialThroughTunnel(sourceAddr, origDst), for every recovered destination
\* whatever the registry holds: a logical stream is opened on the tunnel and
\* the pipe starts, or the dial fails and the connection is closed.
ObDial(c) ==
    /\ obPc[c] = "dial"
    /\ \/ /\ obStream' = [obStream EXCEPT ![c] = TRUE]
          /\ obPc' = [obPc EXCEPT ![c] = "piping"]
       \/ /\ obPc' = [obPc EXCEPT ![c] = "closed"]
          /\ UNCHANGED obStream
    /\ UNCHANGED <<obDst, obEntries>>

\* The pipe ends and the deferred Closes run.
ObPipeEnd(c) ==
    /\ obPc[c] = "piping"
    /\ obPc' = [obPc EXCEPT ![c] = "closed"]
    /\ UNCHANGED <<obDst, obStream, obEntries>>

(* ------------------------------------------------------------------ *)
(* Connection IDs                                                       *)
(* ------------------------------------------------------------------ *)

\* fmt.Sprintf("%s:%d->%s:%d", sourceIP, sourcePort, destIP, destPort).
ConnectionID(sourceIP, sourcePort, destIP, destPort) ==
    sourceIP \o ":" \o ToString(sourcePort) \o "->" \o destIP \o ":" \o ToString(destPort)

\* The TCP connections of local applications an interceptor may accept:
\* <<source IP, source port, destination IP, destination port>>.
EgressSocks ==
    {<<"127.0.0.1", sp, "10.128.0.1", 80>> : sp \in {40000, 40001}}

\* The requests the dispatcher may receive: the headers it looks at ("" or 0
\* when absent) and the socket's addresses (port 0 when there is none).
IngressReqs ==
    [xff : {"", "203.0.113.7"}, realIp : {""},
     remoteAddress : {"10.0.0.1", "10.0.0.2"}, remotePort : {0, 40000},
     fwdHost : {""}, hostName : {"app"}, hostPort : {0},
     fwdPort : {0}, proto : {"https"},
     localAddress : {"10.0.0.9"}, localPort : {3000}]

\* getClientIp: x-forwarded-for, then x-real-ip, then the socket.
GetClientIp(req) ==
    IF req.xff # "" THEN req.xff
    ELSE IF req.realIp # "" THEN req.realIp
    ELSE IF req.remoteAddress # "" THEN req.remoteAddress
    ELSE "127.0.0.1"

\* getServerIp: x-forwarded-host, then host, then the socket.
GetServerIp(req) ==
    IF req.fwdHost # "" THEN req.fwdHost
    ELSE IF req.hostName # "" THEN req.hostName
    ELSE IF req.localAddress # "" THEN req.localAddress
    ELSE "127.0.0.1"

\* getServerPort: x-forwarded-port, the port of host, the default port of
\* x-forwarded-proto, then the socket.
GetServerPort(req) ==
    IF req.fwdPort # 0 THEN req.fwdPort
    ELSE IF req.hostPort # 0 THEN req.hostPort
    ELSE IF req.proto = "https" THEN 443
    ELSE IF req.proto = "http" THEN 80
    ELSE req.localPort

\* getConnectionAddresses(req).connectionId.
GetConnectionId(req) ==
    GetClientIp(req) \o ":" \o ToString(req.remotePort) \o "-"
        \o GetServerIp(req) \o ":" \o ToString(GetServerPort(req))

IdInit ==
    /\ idLive = {}
    /\ idClosed = {}

\* A logical connection is created on the egress side for an accepted TCP
\* connection that is not behind a connection in flight.
IdEgressOpen(t) ==
    /\ Cardinality(idLive) < MaxLive
    /\ \A l \in idLive : ~(l.side = "egress" /\ l.sock = t)
    /\ idLive' = idLive \cup
          {[side |-> "egress", sock |-> t,
            id |-> ConnectionID(t[1], t[2], t[3], t[4])]}
    /\ UNCHANGED idClosed

\* A logical connection is created on the ingress side for a request whose
\* socket is not behind a connection in flight.
IdIngressOpen(req) ==
    /\ Cardinality(idLive) < MaxLive
    /\ \A l \in idLive :
          ~(l.side = "ingress" /\ l.sock = <<req.remoteAddress, req.remotePort>>)
    /\ idLive' = idLive \cup
          {[side |-> "ingress", sock |-> <<req.remoteAddress, req.remotePort>>,
            id |-> GetConnectionId(req)]}
    /\ UNCHANGED idClosed

\* A logical connection is closed.
IdClose(l) ==
    /\ l \in idLive
    /\ idLive' = idLive \ {l}
    /\ idClosed' = idClosed \cup {l.id}

(* ------------------------------------------------------------------ *)
(* The inbound buffers at their real depth                              *)
(* ------------------------------------------------------------------ *)

\* make(chan []byte, 64) in NewTunnelConn and make(chan []byte, 100) in
\* newConn.
ReadChDepth == 64
ReadBufDepth == 100

BufKinds == {"TunnelConn", "Conn"}

BufDepth(k) == IF k = "TunnelConn" THEN ReadChDepth ELSE ReadBufDepth

BfInit ==
    /\ bfLen = [k \in BufKinds |-> 0]
    /\ bfSend = [k \in BufKinds |-> FALSE]
    /\ bfClosed = [k \in BufKinds |-> FALSE]

\* The read loop takes a data frame for the connection and calls Deliver.
BfDeliverBegin(k) ==
    /\ ~bfSend[k]
    /\ bfSend' = [bfSend EXCEPT ![k] = TRUE]
    /\ UNCHANGED <<bfLen, bfClosed>>

\* The channel send goes through once the channel has room.
BfDeliverQueue(k) ==
    /\ bfSend[k]
    /\ bfLen[k] < BufDepth(k)
    /\ bfLen' = [bfLen EXCEPT ![k] = @ + 1]
    /\ bfSend' = [bfSend EXCEPT ![k] = FALSE]
    /\ UNCHANGED bfClosed

\* The deliverer gives the chunk up because the connection is closed.
BfDeliverClosed(k) ==
    /\ bfSend[k]
    /\ bfClosed[k]
    /\ bfSend' = [bfSend EXCEPT ![k] = FALSE]
    /\ UNCHANGED <<bfLen, bfClosed>>

\* The consumer's Read takes the oldest chunk.
BfRead(k) ==
    /\ bfLen[k] > 0
    /\ bfLen' = [bfLen EXCEPT ![k] = @ - 1]
    /\ UNCHANGED <<bfSend, bfClosed>>

\* Close or SignalClose.
BfClose(k) ==
    /\ ~bfClosed[k]
    /\ bfClosed' = [bfClosed EXCEPT ![k] = TRUE]
    /\ UNCHANGED <<bfLen, bfSend>>

(* ------------------------------------------------------------------ *)
(* Original-destination recovery off Linux                              *)
(* ------------------------------------------------------------------ *)

\* The two functions built with !linux.
OdFunctions == {"OriginalDest", "getOriginalDst"}

\* Connections by the type and value of their RemoteAddr().
OdConns ==
    [type : {"tcp", "udp", "unix"},
     ip : {"127.0.0.1", "10.128.0.1", "::1"},
     port : {80, 443, 40000, 40001}]

\* (*net.TCPAddr).String() and (*net.UDPAddr).String(): host:port, an IPv6
\* host in brackets.
AddrString(conn) ==
    IF conn.ip = "::1"
       THEN "[" \o conn.ip \o "]:" \o ToString(conn.port)
       ELSE conn.ip \o ":" \o ToString(conn.port)

NoConn == [type |-> "none", ip |-> "", port |-> 0]

OdInit ==
    /\ odPc = "idle"
    /\ odFn = "none"
    /\ odConn = NoConn
    /\ odRes = [dst |-> "", err |-> FALSE]

OdCall(fn, conn) ==
    /\ odPc = "idle"
    /\ odPc' = "called"
    /\ odFn' = fn
    /\ odConn' = conn
    /\ UNCHANGED odRes

\* netutil.OriginalDest: the remote address of a TCP or UDP connection, an
\* error for any other address type.
OriginalDest(conn) ==
    IF conn.type \in {"tcp", "udp"}
       THEN [dst |-> AddrString(conn), err |-> FALSE]
       ELSE [dst |-> "", err |-> TRUE]

\* commands.getOriginalDst: an error, whatever the connection.
GetOriginalDst(conn) == [dst |-> "", err |-> TRUE]

OdReturn ==
    /\ odPc = "called"
    /\ odPc' = "returned"
    /\ odRes' = IF odFn = "OriginalDest" THEN OriginalDest(odConn)
                                        ELSE GetOriginalDst(odConn)
    /\ UNCHANGED <<odFn, odConn>>

(* ------------------------------------------------------------------ *)
(* k8spf.ParseAddr                                                      *)
(* ------------------------------------------------------------------ *)

\* An address is a sequence of tokens: the separators "k8spf://", "/", ".",
\* ":", "?", "&", "=", "[", "]", "+", "-", and runs of letters or of digits.

\* strings.IndexByte and strings.LastIndexByte over tokens, 0 for not found.
IndexOf(ts, t) ==
    IF \E i \in 1..Len(ts) : ts[i] = t
       THEN CHOOSE i \in 1..Len(ts) : ts[i] = t /\ \A j \in 1..(i - 1) : ts[j] # t
       ELSE 0

LastIndexOf(ts, t) ==
    IF \E i \in 1..Len(ts) : ts[i] = t
       THEN CHOOSE i \in 1..Len(ts) : ts[i] = t /\ \A j \in (i + 1)..Len(ts) : ts[j] # t
       ELSE 0

\* The runs of digits used and their values.
DigitRuns == {"0", "1", "2", "29", "80", "172", "9090", "65535", "99999"}

DigitsValue(t) ==
    CASE t = "0" -> 0 [] t = "1" -> 1 [] t = "2" -> 2 [] t = "29" -> 29
      [] t = "80" -> 80 [] t = "172" -> 172 [] t = "9090" -> 9090
      [] t = "65535" -> 65535 [] t = "99999" -> 99999

\* The parts an address is written from.
PaPrefixes == {<<>>, <<"k8spf://", "/">>, <<"k8spf://">>}
PaNames == {<<>>, <<"pod">>}
PaNamespaces == {<<>>, <<"ns">>, <<"ns", ".", "x">>}
PaPorts ==
    {<<>>, <<":">>, <<":", "9090">>, <<":", "1">>, <<":", "65535">>,
     <<":", "0">>, <<":", "-", "1">>, <<":", "99999">>, <<":", "+", "80">>,
     <<":", "http">>}
PaQueries ==
    {<<>>,
     <<"?", "workload", "=", "pod">>,
     <<"?", "workload", "=", "deployment">>,
     <<"?", "workload", "=", "invalid">>,
     <<"?", "context", "=", "staging">>,
     <<"?", "workload", "=", "deployment", "&", "context", "=", "staging">>,
     <<"?", "other", "=", "1">>}

IPv4Host == <<"172", ".", "29", ".", "0", ".", "2">>
IPv6Host == <<"[", ":", ":", "1", "]">>

\* Inputs: an IP host, or a name with or without ".namespace".
PaInputs ==
    [prefix : PaPrefixes, ip : {"v4", "v6"}, name : {<<>>}, hasNs : {FALSE},
     ns : {<<>>}, port : PaPorts, query : PaQueries]
    \cup
    [prefix : PaPrefixes, ip : {"none"}, name : PaNames, hasNs : BOOLEAN,
     ns : PaNamespaces, port : PaPorts, query : PaQueries]

PaHost(in) ==
    IF in.ip = "v4" THEN IPv4Host
    ELSE IF in.ip = "v6" THEN IPv6Host
    ELSE in.name \o (IF in.hasNs THEN <<".">> \o in.ns ELSE <<>>)

\* The address as written.
PaRender(in) == in.prefix \o PaHost(in) \o in.port \o in.query

\* Strip "k8spf:///", else "k8spf://".
StripScheme(addr) ==
    IF Len(addr) >= 2 /\ addr[1] = "k8spf://" /\ addr[2] = "/"
       THEN SubSeq(addr, 3, Len(addr))
    ELSE IF Len(addr) >= 1 /\ addr[1] = "k8spf://"
       THEN SubSeq(addr, 2, Len(addr))
    ELSE addr

\* url.ParseQuery on well-formed pairs: the key=value pairs, in order.
RECURSIVE ParseQuery(_)
ParseQuery(ts) ==
    IF ts = <<>> THEN <<>>
    ELSE LET amp == IndexOf(ts, "&")
             piece == IF amp = 0 THEN ts ELSE SubSeq(ts, 1, amp - 1)
             rest == IF amp = 0 THEN <<>> ELSE SubSeq(ts, amp + 1, Len(ts))
             eq == IndexOf(piece, "=")
             pair == IF eq = 0 THEN <<piece, <<>>>>
                     ELSE <<SubSeq(piece, 1, eq - 1), SubSeq(piece, eq + 1, Len(piece))>>
         IN  (IF piece = <<>> THEN <<>> ELSE <<pair>>) \o ParseQuery(rest)

\* url.Values.Get: the first value of the key, "" when absent.
QueryGet(q, key) ==
    IF \E i \in 1..Len(q) : q[i][1] = <<key>>
       THEN LET i == CHOOSE i \in 1..Len(q) :
                        q[i][1] = <<key>> /\ \A j \in 1..(i - 1) : q[j][1] # <<key>>
            IN  IF q[i][2] = <<>> THEN "" ELSE q[i][2][1]
       ELSE ""

\* net.SplitHostPort: the last colon separates the port; a host in brackets
\* loses them; any other colon in the host is an error.
SplitHostPort(addr) ==
    LET j == LastIndexOf(addr, ":")
    IN  IF j = 0 THEN [err |-> TRUE, host |-> <<>>, port |-> <<>>]
        ELSE IF addr[1] = "["
           THEN LET e == IndexOf(addr, "]")
                IN  IF e = 0 \/ e + 1 # j
                       THEN [err |-> TRUE, host |-> <<>>, port |-> <<>>]
                       ELSE [err |-> FALSE, host |-> SubSeq(addr, 2, e - 1),
                             port |-> SubSeq(addr, j + 1, Len(addr))]
        ELSE IF IndexOf(SubSeq(addr, 1, j - 1), ":") # 0
           THEN [err |-> TRUE, host |-> <<>>, port |-> <<>>]
           ELSE [err |-> FALSE, host |-> SubSeq(addr, 1, j - 1),
                 port |-> SubSeq(addr, j + 1, Len(addr))]

\* strconv.Atoi: digits with an optional sign.
Atoi(ts) ==
    IF Len(ts) = 1 /\ ts[1] \in DigitRuns
       THEN [err |-> FALSE, val |-> DigitsValue(ts[1])]
    ELSE IF Len(ts) = 2 /\ ts[1] \in {"+", "-"} /\ ts[2] \in DigitRuns
       THEN [err |-> FALSE,
             val |-> IF ts[1] = "-" THEN 0 - DigitsValue(ts[2]) ELSE DigitsValue(ts[2])]
    ELSE [err |-> TRUE, val |-> 0]

\* Mutant of PortInRange: port 0 passes.
PortInRangeFromZero(port) == port >= 0 /\ port <= 65535

\* The range check of ParseAddr: not (port <= 0 || port > 65535).
PortInRange(port) == ~(port <= 0 \/ port > 65535)

\* net.ParseIP(host) != nil: four decimal octets, or an IPv6 literal.
IsIP(host) ==
    \/ /\ Len(host) = 7
       /\ \A i \in {1, 3, 5, 7} : host[i] \in DigitRuns /\ DigitsValue(host[i]) <= 255
       /\ \A i \in {2, 4, 6} : host[i] = "."
    \/ IndexOf(host, ":") # 0

NoTarget ==
    [ok |-> FALSE, name |-> <<>>, ns |-> <<>>, port |-> 0, workload |-> "",
     context |-> ""]

\* ParseAddr.
ParseAddr(addr0) ==
    LET addr1 == StripScheme(addr0)
        qi == IndexOf(addr1, "?")
        query == IF qi = 0 THEN <<>> ELSE ParseQuery(SubSeq(addr1, qi + 1, Len(addr1)))
        addr == IF qi = 0 THEN addr1 ELSE SubSeq(addr1, 1, qi - 1)
        hp == SplitHostPort(addr)
        port == Atoi(hp.port)
        dot == IndexOf(hp.host, ".")
        wl == IF QueryGet(query, "workload") = "" THEN "pod"
              ELSE QueryGet(query, "workload")
    IN  IF hp.err THEN NoTarget
        ELSE IF port.err \/ ~PortInRange(port.val) THEN NoTarget
        ELSE IF IsIP(hp.host) THEN NoTarget
        ELSE IF dot = 0 \/ dot = 1 \/ dot = Len(hp.host) THEN NoTarget
        ELSE IF wl # "pod" /\ wl # "deployment" THEN NoTarget
        ELSE [ok |-> TRUE,
              name |-> SubSeq(hp.host, 1, dot - 1),
              ns |-> SubSeq(hp.host, dot + 1, Len(hp.host)),
              port |-> port.val,
              workload |-> wl,
              context |-> QueryGet(query, "context")]

PaInit ==
    /\ paPc = "idle"
    /\ paIn = <<>>
    /\ paAddr = <<>>
    /\ paRes = NoTarget

PaCall ==
    /\ paPc = "idle"
    /\ paPc' = "called"
    /\ \E in \in PaInputs :
          /\ paIn' = in
          /\ paAddr' = PaRender(in)
    /\ UNCHANGED paRes

PaReturn ==
    /\ paPc = "called"
    /\ paPc' = "returned"
    /\ paRes' = ParseAddr(paAddr)
    /\ UNCHANGED <<paIn, paAddr>>

(* ------------------------------------------------------------------ *)
(* pickBestPod                                                          *)
(* ------------------------------------------------------------------ *)

\* A pod: its deletion timestamp is set or not, its phase, whether a node is
\* assigned, its PodReady condition and that condition's transition time,
\* its highest container restart count, its creation time. Time 0 is the
\* zero time.
PodPhases == {"Running", "Unknown", "Pending", "Succeeded", "Failed"}
PodTimes == 0..MaxPodTime

\* Pods with at most one reason to be skipped, and a zero ready time when
\* not ready.
Pods ==
    {p \in [deleting : BOOLEAN, phase : PodPhases, node : BOOLEAN, ready : BOOLEAN,
            readyTime : PodTimes, restarts : 0..MaxRestarts, created : PodTimes] :
        /\ (p.deleting \/ ~p.node) => p.phase = "Running"
        /\ ~(p.deleting /\ ~p.node)
        /\ ~p.ready => p.readyTime = 0}

PodLists == UNION {[1..n -> Pods] : n \in 0..MaxPods}

\* The filter of pickBestPod.
PodEligible(p) ==
    /\ ~p.deleting
    /\ ~(p.phase = "Succeeded" \/ p.phase = "Failed")
    /\ p.node

\* phaseRank: a phase missing from the map ranks 0.
PhaseRank(phase) ==
    CASE phase = "Running" -> 0
      [] phase = "Unknown" -> 1
      [] phase = "Pending" -> 2
      [] OTHER -> 0

\* afterOrZero.
AfterOrZero(t1, t2) ==
    IF t1 = 0 \/ t2 = 0 THEN t2 = 0 ELSE t1 > t2

\* byHealth.Less.
PodLess(pi, pj) ==
    IF PhaseRank(pi.phase) # PhaseRank(pj.phase)
       THEN PhaseRank(pi.phase) < PhaseRank(pj.phase)
    ELSE IF pi.ready # pj.ready THEN pi.ready
    ELSE IF pi.ready /\ pj.ready /\ pi.readyTime # pj.readyTime
       THEN AfterOrZero(pj.readyTime, pi.readyTime)
    ELSE IF pi.restarts # pj.restarts THEN pi.restarts < pj.restarts
    ELSE IF pi.created # pj.created THEN AfterOrZero(pj.created, pi.created)
    ELSE FALSE

\* The indexes sort.Sort can put first: the eligible pods no other eligible
\* pod is Less than (the sort is not stable, so any of them).
SortedFirst(pods) ==
    {i \in 1..Len(pods) :
        /\ PodEligible(pods[i])
        /\ \A j \in 1..Len(pods) : PodEligible(pods[j]) => ~PodLess(pods[j], pods[i])}

PkInit ==
    /\ pkPc = "idle"
    /\ pkPods = <<>>
    /\ pkRes = 0

PkCall ==
    /\ pkPc = "idle"
    /\ pkPc' = "called"
    /\ \E pods \in PodLists : pkPods' = pods
    /\ UNCHANGED pkRes

\* pickBestPod returns nil when nothing is eligible.
PkReturnNil ==
    /\ pkPc = "called"
    /\ \A i \in 1..Len(pkPods) : ~PodEligible(pkPods[i])
    /\ pkPc' = "returned"
    /\ pkRes' = 0
    /\ UNCHANGED pkPods

\* pickBestPod returns eligible[0] after the sort.
PkReturnBest ==
    /\ pkPc = "called"
    /\ \E i \in 1..Len(pkPods) : PodEligible(pkPods[i])
    /\ pkPc' = "returned"
    /\ pkRes' \in SortedFirst(pkPods)
    /\ UNCHANGED pkPods

(* ------------------------------------------------------------------ *)
(* Conn.Write and Conn.Close on the tunnel                              *)
(* ------------------------------------------------------------------ *)

\* The goroutines that call Write (io.Copy of the pipe) and Close (Pipe.Wait
\* on a cancelled context, the handler's return).
Writers == 1..NumWriters
Closers == 1..NumClosers

\* The client's send: the frame goes onto the tunnel after those already sent.
SendFrame(frames, f) == Append(frames, f)

CwInit ==
    /\ cwClosed = FALSE
    /\ cwOnce = FALSE
    /\ cwOnceDone = FALSE
    /\ cwWr = [w \in Writers |-> "idle"]
    /\ cwCount = [w \in Writers |-> 0]
    /\ cwRet = [w \in Writers |-> "none"]
    /\ cwCl = [k \in Closers |-> "idle"]
    /\ cwFrames = <<>>

\* Write: if c.closed.Load() return ErrClosedPipe.
CwWriteCheck(w) ==
    /\ cwWr[w] = "idle"
    /\ cwCount[w] < MaxWrites
    /\ cwCount' = [cwCount EXCEPT ![w] = @ + 1]
    /\ IF cwClosed
       THEN /\ cwRet' = [cwRet EXCEPT ![w] = "ErrClosedPipe"]
            /\ UNCHANGED cwWr
       ELSE /\ cwWr' = [cwWr EXCEPT ![w] = "send"]
            /\ cwRet' = [cwRet EXCEPT ![w] = "none"]
    /\ UNCHANGED <<cwClosed, cwOnce, cwOnceDone, cwCl, cwFrames>>

\* Write: sendDataWithAddresses sends the data frame; Write returns len(b).
CwWriteSend(w) ==
    /\ cwWr[w] = "send"
    /\ cwFrames' = SendFrame(cwFrames, "data")
    /\ cwWr' = [cwWr EXCEPT ![w] = "idle"]
    /\ cwRet' = [cwRet EXCEPT ![w] = "ok"]
    /\ UNCHANGED <<cwClosed, cwOnce, cwOnceDone, cwCount, cwCl>>

\* Write: sendDataWithAddresses fails; Write returns its error.
CwWriteSendFail(w) ==
    /\ cwWr[w] = "send"
    /\ cwWr' = [cwWr EXCEPT ![w] = "idle"]
    /\ cwRet' = [cwRet EXCEPT ![w] = "err"]
    /\ UNCHANGED <<cwClosed, cwOnce, cwOnceDone, cwCount, cwCl, cwFrames>>

\* Close: closeOnce.Do runs the function for the first caller; the others
\* wait for it to finish.
CwCloseOnce(k) ==
    /\ cwCl[k] = "idle"
    /\ cwOnce' = TRUE
    /\ cwCl' = [cwCl EXCEPT ![k] = IF cwOnce THEN "wait" ELSE "store"]
    /\ UNCHANGED <<cwClosed, cwOnceDone, cwWr, cwCount, cwRet, cwFrames>>

\* Close: c.closed.Store(true).
CwCloseStore(k) ==
    /\ cwCl[k] = "store"
    /\ cwClosed' = TRUE
    /\ cwCl' = [cwCl EXCEPT ![k] = "send"]
    /\ UNCHANGED <<cwOnce, cwOnceDone, cwWr, cwCount, cwRet, cwFrames>>

\* Close: sendClose sends the close frame.
CwCloseSend(k) ==
    /\ cwCl[k] = "send"
    /\ cwFrames' = SendFrame(cwFrames, "close")
    /\ cwCl' = [cwCl EXCEPT ![k] = "sent"]
    /\ UNCHANGED <<cwClosed, cwOnce, cwOnceDone, cwWr, cwCount, cwRet>>

\* Close: sendClose fails, which is only logged.
CwCloseSendFail(k) ==
    /\ cwCl[k] = "send"
    /\ cwCl' = [cwCl EXCEPT ![k] = "sent"]
    /\ UNCHANGED <<cwClosed, cwOnce, cwOnceDone, cwWr, cwCount, cwRet, cwFrames>>

\* Close: close(c.readBuf); the Once is done and Close returns.
CwCloseEnd(k) ==
    /\ cwCl[k] = "sent"
    /\ cwOnceDone' = TRUE
    /\ cwCl' = [cwCl EXCEPT ![k] = "returned"]
    /\ UNCHANGED <<cwClosed, cwOnce, cwWr, cwCount, cwRet, cwFrames>>

\* Close of a later caller returns once the Once is done.
CwCloseWait(k) ==
    /\ cwCl[k] = "wait"
    /\ cwOnceDone
    /\ cwCl' = [cwCl EXCEPT ![k] = "returned"]
    /\ UNCHANGED <<cwClosed, cwOnce, cwOnceDone, cwWr, cwCount, cwRet, cwFrames>>

(* ------------------------------------------------------------------ *)
(* TunnelConn.Close, SignalClose and Write                              *)
(* ------------------------------------------------------------------ *)

TkInit ==
    /\ tkNew = FALSE
    /\ tkHasOnClose = FALSE
    /\ tkOnce = FALSE
    /\ tkCloseCh = FALSE
    /\ tkCl = [k \in Closers |-> "idle"]
    /\ tkCalls = [k \in Closers |-> 0]
    /\ tkOnClose = 0
    /\ tkWrites = [w \in Writers |-> 0]
    /\ tkFrames = <<>>

\* NewTunnelConn(cfg), cfg.OnClose set or nil.
TkNewTunnelConn(has) ==
    /\ ~tkNew
    /\ tkNew' = TRUE
    /\ tkHasOnClose' = has
    /\ UNCHANGED <<tkOnce, tkCloseCh, tkCl, tkCalls, tkOnClose, tkWrites, tkFrames>>

\* SignalClose(): closeOnce.Do(close(closeCh)).
TkSignalClose ==
    /\ tkNew
    /\ ~tkOnce
    /\ tkOnce' = TRUE
    /\ tkCloseCh' = TRUE
    /\ UNCHANGED <<tkNew, tkHasOnClose, tkCl, tkCalls, tkOnClose, tkWrites, tkFrames>>

\* Close(): closeOnce.Do(close(closeCh)).
TkCloseOnce(k) ==
    /\ tkNew
    /\ tkCl[k] = "idle"
    /\ tkCalls[k] < MaxCloses
    /\ tkOnce' = TRUE
    /\ tkCloseCh' = TRUE
    /\ tkCl' = [tkCl EXCEPT ![k] = "onClose"]
    /\ UNCHANGED <<tkNew, tkHasOnClose, tkCalls, tkOnClose, tkWrites, tkFrames>>

\* What the OnClose of a logical connection does: it sends close(id).
OnCloseSends(frames) == Append(frames, "close")

\* Close(): if tc.onClose != nil { tc.onClose() }; return nil.
TkCloseOnClose(k) ==
    /\ tkCl[k] = "onClose"
    /\ IF tkHasOnClose
       THEN /\ tkOnClose' = tkOnClose + 1
            /\ tkFrames' = OnCloseSends(tkFrames)
       ELSE UNCHANGED <<tkOnClose, tkFrames>>
    /\ tkCl' = [tkCl EXCEPT ![k] = "idle"]
    /\ tkCalls' = [tkCalls EXCEPT ![k] = @ + 1]
    /\ UNCHANGED <<tkNew, tkHasOnClose, tkOnce, tkCloseCh, tkWrites>>

\* Write(b): tc.sendFn(b), whatever the state of closeCh.
TkWrite(w) ==
    /\ tkNew
    /\ tkWrites[w] < MaxWrites
    /\ tkWrites' = [tkWrites EXCEPT ![w] = @ + 1]
    /\ tkFrames' = Append(tkFrames, "data")
    /\ UNCHANGED <<tkNew, tkHasOnClose, tkOnce, tkCloseCh, tkCl, tkCalls, tkOnClose>>

(* ------------------------------------------------------------------ *)
(* proxy.Server: handleConnect and Shutdown                             *)
(* ------------------------------------------------------------------ *)

\* The CONNECT requests. connCh is made with depth 100; ConnChBound stands
\* for it so that a full channel is reached with few requests.
Requests == 1..NumRequests

HcInit ==
    /\ hcClosed = FALSE
    /\ hcCh = 0
    /\ hcReq = [r \in Requests |-> "idle"]
    /\ hcShut = "idle"

\* A CONNECT request reaches ServeHTTP; the listener is open until
\* httpServer.Shutdown.
HcServeHTTP(r) ==
    /\ hcReq[r] = "idle"
    /\ hcShut # "done"
    /\ hcReq' = [hcReq EXCEPT ![r] = "handling"]
    /\ UNCHANGED <<hcClosed, hcCh, hcShut>>

\* handleConnect: no Hijacker, or Hijack fails: the handler returns.
HcHijackFail(r) ==
    /\ hcReq[r] = "handling"
    /\ hcReq' = [hcReq EXCEPT ![r] = "failed"]
    /\ UNCHANGED <<hcClosed, hcCh, hcShut>>

\* handleConnect: 200 written and the connection hijacked.
HcHijack(r) ==
    /\ hcReq[r] = "handling"
    /\ hcReq' = [hcReq EXCEPT ![r] = "hijacked"]
    /\ UNCHANGED <<hcClosed, hcCh, hcShut>>

\* handleConnect: select { case p.connCh <- conn: default: conn.Close() }.
\* A send on a closed channel is ready and panics; the hijacked connection
\* is then left open.
HcSend(r) ==
    /\ hcReq[r] = "hijacked"
    /\ IF hcClosed
       THEN hcReq' = [hcReq EXCEPT ![r] = "panicked"] /\ UNCHANGED hcCh
       ELSE IF hcCh < ConnChBound
       THEN hcReq' = [hcReq EXCEPT ![r] = "queued"] /\ hcCh' = hcCh + 1
       ELSE hcReq' = [hcReq EXCEPT ![r] = "closed"] /\ UNCHANGED hcCh
    /\ UNCHANGED <<hcClosed, hcShut>>

\* The reader of Conns() takes a connection.
HcReceive ==
    /\ hcCh > 0
    /\ hcCh' = hcCh - 1
    /\ UNCHANGED <<hcClosed, hcReq, hcShut>>

\* Shutdown: close(p.connCh).
HcShutdownClose ==
    /\ hcShut = "idle"
    /\ hcShut' = "closed"
    /\ hcClosed' = TRUE
    /\ UNCHANGED <<hcCh, hcReq>>

\* Shutdown: p.httpServer.Shutdown(ctx) closes the listener and returns when
\* the connections are idle or ctx is done.
HcShutdownServer ==
    /\ hcShut = "closed"
    /\ hcShut' = "done"
    /\ UNCHANGED <<hcClosed, hcCh, hcReq>>

(* ------------------------------------------------------------------ *)
(* relayMessages and the end of a paired tunnel                         *)
(* ------------------------------------------------------------------ *)

\* The two websocket connections, and the relay goroutine that reads each.
RelayConns == {1, 2}
OtherConn(i) == 3 - i

\* The client handler has taken the server from pending.ready and starts
\* relayMessages; the server handler waits on pending.done.
RlInit ==
    /\ rlBroken = [i \in RelayConns |-> FALSE]
    /\ rlClosed = [i \in RelayConns |-> FALSE]
    /\ rlIn = [i \in RelayConns |-> 0]
    /\ rlArrived = 0
    /\ rlG = [i \in RelayConns |-> "read"]
    /\ rlDoneCh = 0
    /\ rlMain = "relay"
    /\ rlPDone = FALSE
    /\ rlSrv = "wait"

\* A message arrives on a connection.
RlArrive(i) ==
    /\ ~rlBroken[i]
    /\ ~rlClosed[i]
    /\ rlArrived < MaxRelayMsgs
    /\ rlArrived' = rlArrived + 1
    /\ rlIn' = [rlIn EXCEPT ![i] = @ + 1]
    /\ UNCHANGED <<rlBroken, rlClosed, rlG, rlDoneCh, rlMain, rlPDone, rlSrv>>

\* The remote end of a connection closes it or the network fails.
RlBreak(i) ==
    /\ ~rlBroken[i]
    /\ rlBroken' = [rlBroken EXCEPT ![i] = TRUE]
    /\ UNCHANGED <<rlClosed, rlIn, rlArrived, rlG, rlDoneCh, rlMain, rlPDone, rlSrv>>

\* The relay goroutine of connection i: ReadMessage returns a message.
RlReadMessage(i) ==
    /\ rlG[i] = "read"
    /\ ~rlClosed[i]
    /\ rlIn[i] > 0
    /\ rlIn' = [rlIn EXCEPT ![i] = @ - 1]
    /\ rlG' = [rlG EXCEPT ![i] = "write"]
    /\ UNCHANGED <<rlBroken, rlClosed, rlArrived, rlDoneCh, rlMain, rlPDone, rlSrv>>

\* The goroutine returns; its defer sends on done (buffered, depth 2).
RlGoroutineReturn(i) ==
    /\ rlG' = [rlG EXCEPT ![i] = "done"]
    /\ rlDoneCh' = rlDoneCh + 1

\* ReadMessage fails: the connection is closed or its remote end has failed.
RlReadError(i) ==
    /\ rlG[i] = "read"
    /\ rlClosed[i] \/ rlBroken[i]
    /\ RlGoroutineReturn(i)
    /\ UNCHANGED <<rlBroken, rlClosed, rlIn, rlArrived, rlMain, rlPDone, rlSrv>>

\* WriteMessage to the other connection succeeds.
RlWriteMessage(i) ==
    /\ rlG[i] = "write"
    /\ ~rlClosed[OtherConn(i)]
    /\ rlG' = [rlG EXCEPT ![i] = "read"]
    /\ UNCHANGED <<rlBroken, rlClosed, rlIn, rlArrived, rlDoneCh, rlMain, rlPDone,
                   rlSrv>>

\* WriteMessage to the other connection fails.
RlWriteError(i) ==
    /\ rlG[i] = "write"
    /\ rlClosed[OtherConn(i)] \/ rlBroken[OtherConn(i)]
    /\ RlGoroutineReturn(i)
    /\ UNCHANGED <<rlBroken, rlClosed, rlIn, rlArrived, rlMain, rlPDone, rlSrv>>

\* relayMessages: <-done; it returns when one direction has finished.
RlRelayReturn ==
    /\ rlMain = "relay"
    /\ rlDoneCh > 0
    /\ rlDoneCh' = rlDoneCh - 1
    /\ rlMain' = "closeDone"
    /\ UNCHANGED <<rlBroken, rlClosed, rlIn, rlArrived, rlG, rlPDone, rlSrv>>

\* handleClientRegistration: close(pending.done), then it returns.
RlCloseDone ==
    /\ rlMain = "closeDone"
    /\ rlPDone' = TRUE
    /\ rlMain' = "defer"
    /\ UNCHANGED <<rlBroken, rlClosed, rlIn, rlArrived, rlG, rlDoneCh, rlSrv>>

\* Mutant of HandleTunnelDefer: the connection is left open.
HandleTunnelNoClose(closed, i) == closed

\* The defer of handleTunnel: s.conns.Delete(wsConn); wsConn.Close().
HandleTunnelDefer(closed, i) == [closed EXCEPT ![i] = TRUE]

\* handleTunnel of the client returns.
RlClientReturn ==
    /\ rlMain = "defer"
    /\ rlClosed' = HandleTunnelDefer(rlClosed, 1)
    /\ rlMain' = "returned"
    /\ UNCHANGED <<rlBroken, rlIn, rlArrived, rlG, rlDoneCh, rlPDone, rlSrv>>

\* handleServerRegistration: <-pending.done returns.
RlSrvDone ==
    /\ rlSrv = "wait"
    /\ rlPDone
    /\ rlSrv' = "defer"
    /\ UNCHANGED <<rlBroken, rlClosed, rlIn, rlArrived, rlG, rlDoneCh, rlMain,
                   rlPDone>>

\* handleTunnel of the server returns.
RlSrvReturn ==
    /\ rlSrv = "defer"
    /\ rlClosed' = HandleTunnelDefer(rlClosed, 2)
    /\ rlSrv' = "returned"
    /\ UNCHANGED <<rlBroken, rlIn, rlArrived, rlG, rlDoneCh, rlMain, rlPDone>>

(* ------------------------------------------------------------------ *)
(* The dispatcher: getTunnelClient and handleTunnelConnect              *)
(* ------------------------------------------------------------------ *)

\* The requests in flight, the TunnelClient objects, the sandbox URLs.
Handlers == 1..NumHandlers
Clients == 1..MaxClients
SandboxUrls == {"a", "b"}

GtInit ==
    /\ gtClient = 0
    /\ gtPromise = 0
    /\ gtUrl = "none"
    /\ gtNext = 0
    /\ gtConn = [c \in Clients |-> "new"]
    /\ gtProm = [c \in Clients |-> "none"]
    /\ gtCut = {}
    /\ gtBg = FALSE
    /\ gtRuns = [c \in Clients |-> 0]
    /\ gtRunning = [c \in Clients |-> 0]
    /\ gtCalls = 0
    /\ hPc = [h \in Handlers |-> "idle"]
    /\ hAwait = [h \in Handlers |-> 0]
    /\ hOwn = [h \in Handlers |-> FALSE]
    /\ hClient = [h \in Handlers |-> 0]
    /\ hStatus = [h \in Handlers |-> "none"]

\* A handler's awaited promise has settled: its continuation is a microtask
\* and runs before any new request, timer or socket event.
MicrotaskPending ==
    \E h \in Handlers :
        hPc[h] = "await" /\ gtProm[hAwait[h]] \in {"resolved", "rejected"}

\* getTunnelClient, first test: the client is connected and of this sandbox.
GtReusable(url) ==
    gtClient # 0 /\ gtConn[gtClient] = "connected" /\ gtUrl = url

\* getTunnelClient, second test: a client that is not connected or is of
\* another sandbox is disconnected and forgotten.
GtStale(url) ==
    gtClient # 0 /\ (gtConn[gtClient] # "connected" \/ gtUrl # url)

\* TunnelClient.disconnect(): the client's connection is closed.
Disconnect(conn, c) == [conn EXCEPT ![c] = "closed"]

\* handleTunnelConnect with the client it got: runUntilDone is started if
\* backgroundProcessingStarted is false; then the 100 ms wait.
HtcGotClient(h, c) ==
    /\ IF ~gtBg
       THEN /\ gtBg' = TRUE
            /\ gtRuns' = [gtRuns EXCEPT ![c] = @ + 1]
            /\ gtRunning' = [gtRunning EXCEPT ![c] = @ + 1]
       ELSE UNCHANGED <<gtBg, gtRuns, gtRunning>>
    /\ hClient' = [hClient EXCEPT ![h] = c]
    /\ hPc' = [hPc EXCEPT ![h] = "sleep"]

\* The catch of handleTunnelConnect: resetTunnelClient(),
\* backgroundProcessingStarted = false, 503.
HtcCatch(h) ==
    /\ gtClient' = 0
    /\ gtPromise' = 0
    /\ gtBg' = FALSE
    /\ hStatus' = [hStatus EXCEPT ![h] = "503"]
    /\ hPc' = [hPc EXCEPT ![h] = "idle"]

\* handleTunnelConnect up to the first await that suspends it: the body is
\* parsed and validated, then getTunnelClient returns the connected client,
\* or waits for the connection in progress, or creates a client and connects.
HtcCall(h, url) ==
    /\ ~MicrotaskPending
    /\ hPc[h] = "idle"
    /\ gtCalls < MaxConnects
    /\ gtCalls' = gtCalls + 1
    /\ IF GtReusable(url)
       THEN /\ HtcGotClient(h, gtClient)
            /\ UNCHANGED <<gtClient, gtPromise, gtUrl, gtNext, gtConn, gtProm, gtCut,
                           hAwait, hOwn, hStatus>>
       ELSE IF ~GtStale(url) /\ gtPromise # 0
       THEN /\ hAwait' = [hAwait EXCEPT ![h] = gtPromise]
            /\ hOwn' = [hOwn EXCEPT ![h] = FALSE]
            /\ hPc' = [hPc EXCEPT ![h] = "await"]
            /\ UNCHANGED <<gtClient, gtPromise, gtUrl, gtNext, gtConn, gtProm, gtCut,
                           gtBg, gtRuns, gtRunning, hClient, hStatus>>
       ELSE /\ gtNext < MaxClients
            /\ gtNext' = gtNext + 1
            /\ gtCut' = IF GtStale(url) /\ gtConn[gtClient] = "connecting"
                            THEN gtCut \cup {gtClient} ELSE gtCut
            /\ gtConn' = [(IF GtStale(url) THEN Disconnect(gtConn, gtClient) ELSE gtConn)
                             EXCEPT ![gtNext + 1] = "connecting"]
            /\ gtProm' = [gtProm EXCEPT ![gtNext + 1] = "pending"]
            /\ gtClient' = gtNext + 1
            /\ gtPromise' = gtNext + 1
            /\ gtUrl' = url
            /\ hAwait' = [hAwait EXCEPT ![h] = gtNext + 1]
            /\ hOwn' = [hOwn EXCEPT ![h] = TRUE]
            /\ hPc' = [hPc EXCEPT ![h] = "await"]
            /\ UNCHANGED <<gtBg, gtRuns, gtRunning, hClient, hStatus>>

\* TunnelClient.connect() succeeds.
GtConnectOk(c) ==
    /\ ~MicrotaskPending
    /\ gtProm[c] = "pending"
    /\ gtConn[c] = "connecting"
    /\ gtProm' = [gtProm EXCEPT ![c] = "resolved"]
    /\ gtConn' = [gtConn EXCEPT ![c] = "connected"]
    /\ UNCHANGED <<gtClient, gtPromise, gtUrl, gtNext, gtCut, gtBg, gtRuns, gtRunning,
                   gtCalls, hPc, hAwait, hOwn, hClient, hStatus>>

\* The connect promise rejects: connect() fails, or withTimeout's timer fires.
GtConnectFail(c) ==
    /\ ~MicrotaskPending
    /\ gtProm[c] = "pending"
    /\ gtProm' = [gtProm EXCEPT ![c] = "rejected"]
    /\ gtConn' = [gtConn EXCEPT ![c] = IF @ = "connecting" THEN "failed" ELSE @]
    /\ UNCHANGED <<gtClient, gtPromise, gtUrl, gtNext, gtCut, gtBg, gtRuns, gtRunning,
                   gtCalls, hPc, hAwait, hOwn, hClient, hStatus>>

\* The awaited connection promise has resolved: getTunnelClient returns the
\* module's tunnelClient; a null one makes client.runUntilDone throw.
HtcResumeOk(h) ==
    /\ hPc[h] = "await"
    /\ gtProm[hAwait[h]] = "resolved"
    /\ IF gtClient # 0
       THEN /\ HtcGotClient(h, gtClient)
            /\ UNCHANGED <<gtClient, gtPromise, hStatus>>
       ELSE /\ HtcCatch(h)
            /\ UNCHANGED <<gtRuns, gtRunning, hClient>>
    /\ UNCHANGED <<gtUrl, gtNext, gtConn, gtProm, gtCut, gtCalls, hAwait, hOwn>>

\* The awaited connection promise has rejected: the caller that created it
\* clears the module state in getTunnelClient's catch; the error reaches the
\* catch of handleTunnelConnect.
HtcResumeFail(h) ==
    /\ hPc[h] = "await"
    /\ gtProm[hAwait[h]] = "rejected"
    /\ HtcCatch(h)
    /\ gtUrl' = IF hOwn[h] THEN "none" ELSE gtUrl
    /\ UNCHANGED <<gtNext, gtConn, gtProm, gtCut, gtRuns, gtRunning, gtCalls,
                   hAwait, hOwn, hClient>>

\* handleTunnelConnect after the 100 ms: 200 if the client is connected,
\* otherwise resetTunnelClient, backgroundProcessingStarted = false, 503.
HtcWake(h) ==
    /\ ~MicrotaskPending
    /\ hPc[h] = "sleep"
    /\ IF gtConn[hClient[h]] = "connected"
       THEN /\ hStatus' = [hStatus EXCEPT ![h] = "200"]
            /\ hPc' = [hPc EXCEPT ![h] = "idle"]
            /\ UNCHANGED <<gtClient, gtPromise, gtBg>>
       ELSE HtcCatch(h)
    /\ UNCHANGED <<gtUrl, gtNext, gtConn, gtProm, gtCut, gtRuns, gtRunning, gtCalls,
                   hAwait, hOwn, hClient>>

\* The sandbox's end of a connected client closes.
GtRemoteClose(c) ==
    /\ ~MicrotaskPending
    /\ gtConn[c] = "connected"
    /\ gtConn' = [gtConn EXCEPT ![c] = "closed"]
    /\ UNCHANGED <<gtClient, gtPromise, gtUrl, gtNext, gtProm, gtCut, gtBg, gtRuns,
                   gtRunning, gtCalls, hPc, hAwait, hOwn, hClient, hStatus>>

\* runUntilDone of a client that is no longer connected resolves.
GtRunResolves(c) ==
    /\ ~MicrotaskPending
    /\ gtRunning[c] > 0
    /\ gtConn[c] # "connected"
    /\ gtRunning' = [gtRunning EXCEPT ![c] = @ - 1]
    /\ UNCHANGED <<gtClient, gtPromise, gtUrl, gtNext, gtConn, gtProm, gtCut, gtBg,
                   gtRuns, gtCalls, hPc, hAwait, hOwn, hClient, hStatus>>

\* runUntilDone rejects: its catch calls resetTunnelClient and clears
\* backgroundProcessingStarted.
GtRunRejects(c) ==
    /\ ~MicrotaskPending
    /\ gtRunning[c] > 0
    /\ gtConn[c] # "connected"
    /\ gtRunning' = [gtRunning EXCEPT ![c] = @ - 1]
    /\ gtClient' = 0
    /\ gtPromise' = 0
    /\ gtBg' = FALSE
    /\ UNCHANGED <<gtUrl, gtNext, gtConn, gtProm, gtCut, gtRuns, gtCalls, hPc,
                   hAwait, hOwn, hClient, hStatus>>

(* ------------------------------------------------------------------ *)
(* handleTunnel: the registration message                               *)
(* ------------------------------------------------------------------ *)

\* registrationTimeout = 30 * time.Second, in units of 10 s.
RegistrationTimeout == 3

Tunnels == 1..NumTunnels

\* First messages: bytes that are no protobuf Message, a Message without a
\* registration, a client registration without function_url, a server
\* registration without connection_key, and the two complete ones.
FirstFrames == {"garbage", "noreg", "clientNoUrl", "serverNoKey", "client", "server"}

RgInit ==
    /\ rgNow = 0
    /\ rgPc = [t \in Tunnels |-> "none"]
    /\ rgStart = [t \in Tunnels |-> 0]
    /\ rgFirst = [t \in Tunnels |-> "none"]
    /\ rgPaired = [t \in Tunnels |-> FALSE]
    /\ rgErr = [t \in Tunnels |-> "none"]
    /\ rgRelayed = [t \in Tunnels |-> 0]

\* Mutant of ReadDeadline: no deadline is set.
ReadDeadlineNever(start) == start + MaxRegTime + 1

\* wsConn.SetReadDeadline(time.Now().Add(registrationTimeout)).
ReadDeadline(start) == start + RegistrationTimeout

\* Time passes, but not beyond the read deadline of a connection whose
\* ReadMessage is still waiting: that read fails at the deadline.
RgTick ==
    /\ rgNow < MaxRegTime
    /\ \A t \in Tunnels : rgPc[t] = "read" => rgNow < ReadDeadline(rgStart[t])
    /\ rgNow' = rgNow + 1
    /\ UNCHANGED <<rgPc, rgStart, rgFirst, rgPaired, rgErr, rgRelayed>>

\* handleTunnel: the upgrade succeeds, the read deadline is set and
\* ReadMessage waits for the registration message.
RgUpgrade(t) ==
    /\ rgPc[t] = "none"
    /\ rgPc' = [rgPc EXCEPT ![t] = "read"]
    /\ rgStart' = [rgStart EXCEPT ![t] = rgNow]
    /\ UNCHANGED <<rgNow, rgFirst, rgPaired, rgErr, rgRelayed>>

\* ReadMessage fails at the deadline: handleTunnel returns and its defer
\* closes the connection.
RgReadTimeout(t) ==
    /\ rgPc[t] = "read"
    /\ rgNow >= ReadDeadline(rgStart[t])
    /\ rgPc' = [rgPc EXCEPT ![t] = "closed"]
    /\ UNCHANGED <<rgNow, rgStart, rgFirst, rgPaired, rgErr, rgRelayed>>

\* What handleTunnel and the registration handlers do with the first message:
\* return on bytes that do not parse or carry no registration; send an error
\* frame and return on a registration missing its function_url or
\* connection_key, or on a server registration with no pending client;
\* otherwise wait for (client) or join (server) the pairing.
RgHandle(frame, pendingFound) ==
    CASE frame \in {"garbage", "noreg"} -> [pc |-> "closed", err |-> "none", paired |-> FALSE]
      [] frame = "clientNoUrl" -> [pc |-> "closed", err |-> "nourl", paired |-> FALSE]
      [] frame = "serverNoKey" -> [pc |-> "closed", err |-> "nokey", paired |-> FALSE]
      [] frame = "client" -> [pc |-> "pending", err |-> "none", paired |-> FALSE]
      [] frame = "server" ->
            IF pendingFound THEN [pc |-> "paired", err |-> "none", paired |-> TRUE]
            ELSE [pc |-> "closed", err |-> "nopending", paired |-> FALSE]

\* The first message arrives before the deadline and handleTunnel handles it.
RgFirstMessage(t, frame, pendingFound) ==
    /\ rgPc[t] = "read"
    /\ rgNow < ReadDeadline(rgStart[t])
    /\ rgFirst' = [rgFirst EXCEPT ![t] = frame]
    /\ rgPc' = [rgPc EXCEPT ![t] = RgHandle(frame, pendingFound).pc]
    /\ rgErr' = [rgErr EXCEPT ![t] = RgHandle(frame, pendingFound).err]
    /\ rgPaired' = [rgPaired EXCEPT ![t] = RgHandle(frame, pendingFound).paired]
    /\ UNCHANGED <<rgNow, rgStart, rgRelayed>>

\* A pending client is paired with a server.
RgPair(t) ==
    /\ rgPc[t] = "pending"
    /\ rgPc' = [rgPc EXCEPT ![t] = "paired"]
    /\ rgPaired' = [rgPaired EXCEPT ![t] = TRUE]
    /\ UNCHANGED <<rgNow, rgStart, rgFirst, rgErr, rgRelayed>>

\* relayMessages forwards a message read from a paired connection.
RgRelay(t) ==
    /\ rgPc[t] = "paired"
    /\ rgRelayed[t] < MaxRelayed
    /\ rgRelayed' = [rgRelayed EXCEPT ![t] = @ + 1]
    /\ UNCHANGED <<rgNow, rgPc, rgStart, rgFirst, rgPaired, rgErr>>

\* The pairing times out or the relay ends: the connection is closed.
RgEnd(t) ==
    /\ rgPc[t] \in {"pending", "paired"}
    /\ rgPc' = [rgPc EXCEPT ![t] = "closed"]
    /\ UNCHANGED <<rgNow, rgStart, rgFirst, rgPaired, rgErr, rgRelayed>>

(* ------------------------------------------------------------------ *)
(* Specifications of the two logical-connection types                  *)
(* ------------------------------------------------------------------ *)

\* The initial state of the components modelled after the registry.
LaterInit == ObInit /\ IdInit /\ BfInit /\ OdInit /\ PaInit /\ PkInit /\ CwInit /\ TkInit /\ HcInit /\ RlInit /\ GtInit /\ RgInit /\ RnInit

ExtInit == DqInit /\ WsInit /\ AlInit /\ PgInit /\ RcInit /\ LaterInit

InitAll == TcInit /\ CnInit /\ PipeInit /\ PoolInit /\ RegInit /\ ExtInit

\* plumbing.TunnelConn driven by the tunnel's read loop, the remote close and
\* its consumer.
NextTunnelConn ==
    \/ TcDeliver /\ UNCHANGED <<cnVars, pipeVars, poolVars, regVars, extVars>>
    \/ TcSignalClose /\ UNCHANGED <<cnVars, pipeVars, poolVars, regVars, extVars>>
    \/ TcClose /\ UNCHANGED <<cnVars, pipeVars, poolVars, regVars, extVars>>
    \/ TcRead /\ UNCHANGED <<cnVars, pipeVars, poolVars, regVars, extVars>>

SpecTunnelConn == InitAll /\ [][NextTunnelConn]_vars

\* tunnel.Conn driven by the client's read loop, Close and its consumer.
NextConn ==
    \/ CnDeliver /\ UNCHANGED <<tcVars, pipeVars, poolVars, regVars, extVars>>
    \/ CnCloseBegin /\ UNCHANGED <<tcVars, pipeVars, poolVars, regVars, extVars>>
    \/ CnCloseEnd /\ UNCHANGED <<tcVars, pipeVars, poolVars, regVars, extVars>>
    \/ CnReadCheck /\ UNCHANGED <<tcVars, pipeVars, poolVars, regVars, extVars>>
    \/ CnReadData /\ UNCHANGED <<tcVars, pipeVars, poolVars, regVars, extVars>>
    \/ CnReadChanClosed /\ UNCHANGED <<tcVars, pipeVars, poolVars, regVars, extVars>>

SpecConn == InitAll /\ [][NextConn]_vars

\* The transparent proxy: accepted connections piped into the tunnel, the local
\* application and the remote side acting on them, and cancellation.
NextPipe ==
    \/ \E c \in Conns : Accept(c) /\ UNCHANGED <<tcVars, cnVars, poolVars, regVars, extVars>>
    \/ \E c \in Conns : OrigDst(c) /\ UNCHANGED <<tcVars, cnVars, poolVars, regVars, extVars>>
    \/ \E c \in Conns : Dial(c) /\ UNCHANGED <<tcVars, cnVars, poolVars, regVars, extVars>>
    \/ \E c \in Conns : AppSend(c) /\ UNCHANGED <<tcVars, cnVars, poolVars, regVars, extVars>>
    \/ \E c \in Conns : AppClose(c) /\ UNCHANGED <<tcVars, cnVars, poolVars, regVars, extVars>>
    \/ \E c \in Conns : TunnelData(c) /\ UNCHANGED <<tcVars, cnVars, poolVars, regVars, extVars>>
    \/ \E c \in Conns : RemoteClose(c) /\ UNCHANGED <<tcVars, cnVars, poolVars, regVars, extVars>>
    \/ \E c \in Conns : CopyInRead(c) /\ UNCHANGED <<tcVars, cnVars, poolVars, regVars, extVars>>
    \/ \E c \in Conns : CopyInWrite(c) /\ UNCHANGED <<tcVars, cnVars, poolVars, regVars, extVars>>
    \/ \E c \in Conns : CopyOutRead(c) /\ UNCHANGED <<tcVars, cnVars, poolVars, regVars, extVars>>
    \/ \E c \in Conns : CopyOutWrite(c) /\ UNCHANGED <<tcVars, cnVars, poolVars, regVars, extVars>>
    \/ \E c \in Conns : WaitReturn(c) /\ UNCHANGED <<tcVars, cnVars, poolVars, regVars, extVars>>
    \/ CancelParent /\ UNCHANGED <<tcVars, cnVars, poolVars, regVars, extVars>>
    \/ TunnelTeardown /\ UNCHANGED <<tcVars, cnVars, poolVars, regVars, extVars>>
    \/ ListenerClose /\ UNCHANGED <<tcVars, cnVars, poolVars, regVars, extVars>>

\* The goroutines of the process are scheduled fairly; the local application,
\* the remote side and the cancellation are not obliged to act.
PipeFairness ==
    /\ \A c \in Conns :
          /\ WF_pipeVars(OrigDst(c) \/ Dial(c) \/ WaitReturn(c))
          /\ WF_pipeVars(CopyInRead(c) \/ CopyInWrite(c))
          /\ WF_pipeVars(CopyOutRead(c) \/ CopyOutWrite(c))
    /\ WF_pipeVars(TunnelTeardown)
    /\ WF_pipeVars(ListenerClose)

SpecPipe == InitAll /\ [][NextPipe]_vars /\ PipeFairness

\* The IP pool used directly by concurrent callers.
NextPool ==
    \/ \E t \in PoolThreads : PoolAcquireBegin(t) /\ UNCHANGED <<tcVars, cnVars, pipeVars, regVars, extVars>>
    \/ \E t \in PoolThreads : PoolAcquireScan(t) /\ UNCHANGED <<tcVars, cnVars, pipeVars, regVars, extVars>>
    \/ \E t \in PoolThreads : PoolAcquireEnd(t) /\ UNCHANGED <<tcVars, cnVars, pipeVars, regVars, extVars>>
    \/ \E t \in PoolThreads, ip \in CidrAddrs :
          PoolReleaseBegin(t, ip) /\ UNCHANGED <<tcVars, cnVars, pipeVars, regVars, extVars>>
    \/ \E t \in PoolThreads : PoolReleaseEnd(t) /\ UNCHANGED <<tcVars, cnVars, pipeVars, regVars, extVars>>

SpecPool == InitAll /\ [][NextPool]_vars

\* The registry as the intercept process drives it: DNS handlers allocate, the
\* transparent proxy looks up, the sweeper expires.
NextReg ==
    \/ Tick /\ UNCHANGED <<tcVars, cnVars, pipeVars, extVars>>
    \/ \E t \in DnsThreads, h \in Hostnames : DnsQuery(t, h) /\ UNCHANGED <<tcVars, cnVars, pipeVars, extVars>>
    \/ \E t \in DnsThreads : DnsResolveFail(t) /\ UNCHANGED <<tcVars, cnVars, pipeVars, extVars>>
    \/ \E t \in DnsThreads : DnsResolveOk(t) /\ UNCHANGED <<tcVars, cnVars, pipeVars, extVars>>
    \/ \E t \in DnsThreads : AllocAcquire(t) /\ UNCHANGED <<tcVars, cnVars, pipeVars, extVars>>
    \/ \E t \in DnsThreads : AllocInsert(t) /\ UNCHANGED <<tcVars, cnVars, pipeVars, extVars>>
    \/ \E t \in DnsThreads : DnsAnswer(t) /\ UNCHANGED <<tcVars, cnVars, pipeVars, extVars>>
    \/ \E ip \in CidrHosts : Lookup(ip) /\ UNCHANGED <<tcVars, cnVars, pipeVars, extVars>>
    \/ SweepStart /\ UNCHANGED <<tcVars, cnVars, pipeVars, extVars>>
    \/ \E ip \in CidrHosts : SweepVisit(ip) /\ UNCHANGED <<tcVars, cnVars, pipeVars, extVars>>

SpecReg == InitAll /\ [][NextReg]_vars

\* The registry with explicit releases as well.
NextRegApi ==
    \/ NextReg
    \/ \E ip \in CidrHosts : Release(ip) /\ UNCHANGED <<tcVars, cnVars, pipeVars, extVars>>

SpecRegApi == InitAll /\ [][NextRegApi]_vars

\* The DNS server built with some pattern list and answering queries.
NextDns ==
    \/ \E P \in PatternLists : DqConfigure(P) /\ UNCHANGED <<coreVars, wsVars, moreVars>>
    \/ \E q \in QueryNames, ty \in QueryTypes : DqArrive(q, ty) /\ UNCHANGED <<coreVars, wsVars, moreVars>>
    \/ DqHandle /\ UNCHANGED <<coreVars, wsVars, moreVars>>
    \/ DqReturn /\ UNCHANGED <<coreVars, wsVars, moreVars>>

SpecDns == InitAll /\ [][NextDns]_vars

\* The relay server with clients and servers registering in any order.
NextWS ==
    \/ \E c \in WsClients : ClRegisterNoUrl(c) /\ UNCHANGED <<coreVars, dqVars, moreVars>>
    \/ \E c \in WsClients : ClRegister(c) /\ UNCHANGED <<coreVars, dqVars, moreVars>>
    \/ \E c \in WsClients : ClPost(c) /\ UNCHANGED <<coreVars, dqVars, moreVars>>
    \/ \E c \in WsClients : ClPostFail(c) /\ UNCHANGED <<coreVars, dqVars, moreVars>>
    \/ \E c \in WsClients : ClPostOk(c) /\ UNCHANGED <<coreVars, dqVars, moreVars>>
    \/ \E c \in WsClients : WsTimeout(c) /\ UNCHANGED <<coreVars, dqVars, moreVars>>
    \/ \E c \in WsClients : ClSelectReady(c) /\ UNCHANGED <<coreVars, dqVars, moreVars>>
    \/ \E c \in WsClients : ClSelectTimeout(c) /\ UNCHANGED <<coreVars, dqVars, moreVars>>
    \/ \E c \in WsClients : RelayMsg(c) /\ UNCHANGED <<coreVars, dqVars, moreVars>>
    \/ \E c \in WsClients : ClRelayEnd(c) /\ UNCHANGED <<coreVars, dqVars, moreVars>>
    \/ \E s \in WsServers, k \in ServerKeys : SrvRegister(s, k) /\ UNCHANGED <<coreVars, dqVars, moreVars>>
    \/ \E s \in WsServers : SrvDone(s) /\ UNCHANGED <<coreVars, dqVars, moreVars>>

\* The handler goroutines run; the dispatcher's HTTP exchange ends (the client
\* has a 10 s timeout and the request carries pairCtx).
WSFairness ==
    \A c \in WsClients :
        /\ WF_vars(ClPost(c) /\ UNCHANGED <<coreVars, dqVars, moreVars>>)
        /\ WF_vars((ClPostFail(c) \/ ClPostOk(c)) /\ UNCHANGED <<coreVars, dqVars, moreVars>>)
        /\ WF_vars((ClSelectReady(c) \/ ClSelectTimeout(c)) /\ UNCHANGED <<coreVars, dqVars, moreVars>>)

SpecWS == InitAll /\ [][NextWS]_vars /\ WSFairness

\* The three accept loops, their contexts cancelled at any moment.
NextAccept ==
    \/ \E k \in Loops : AlCancel(k) /\ UNCHANGED <<coreVars, dqVars, wsVars, pgVars, rcVars, laterVars>>
    \/ AlWatchClose /\ UNCHANGED <<coreVars, dqVars, wsVars, pgVars, rcVars, laterVars>>
    \/ AlSigCleanup /\ UNCHANGED <<coreVars, dqVars, wsVars, pgVars, rcVars, laterVars>>
    \/ AlSigExit /\ UNCHANGED <<coreVars, dqVars, wsVars, pgVars, rcVars, laterVars>>
    \/ \E k \in Loops : AlAccept(k) /\ UNCHANGED <<coreVars, dqVars, wsVars, pgVars, rcVars, laterVars>>
    \/ \E k \in Loops : AlAcceptClosed(k) /\ UNCHANGED <<coreVars, dqVars, wsVars, pgVars, rcVars, laterVars>>
    \/ \E k \in Loops : AlAcceptTransient(k) /\ UNCHANGED <<coreVars, dqVars, wsVars, pgVars, rcVars, laterVars>>

\* The goroutines run: the listener-closing goroutine, the signal goroutine
\* and each loop's return from a failed Accept. Connections and transient
\* errors arrive or not.
AcceptFairness ==
    /\ WF_vars(AlWatchClose /\ UNCHANGED <<coreVars, dqVars, wsVars, pgVars, rcVars, laterVars>>)
    /\ WF_vars(AlSigCleanup /\ UNCHANGED <<coreVars, dqVars, wsVars, pgVars, rcVars, laterVars>>)
    /\ WF_vars(AlSigExit /\ UNCHANGED <<coreVars, dqVars, wsVars, pgVars, rcVars, laterVars>>)
    /\ \A k \in Loops :
          WF_vars(AlAcceptClosed(k) /\ UNCHANGED <<coreVars, dqVars, wsVars, pgVars, rcVars, laterVars>>)

SpecAccept == InitAll /\ [][NextAccept]_vars /\ AcceptFairness

\* The accept loops with a caller of tcpProxy.Shutdown.
NextShutdown ==
    \/ NextAccept
    \/ AlShutdown /\ UNCHANGED <<coreVars, dqVars, wsVars, pgVars, rcVars, laterVars>>

SpecShutdown == InitAll /\ [][NextShutdown]_vars /\ AcceptFairness

\* One dialled websocket connection, its peer answering pings or not.
NextPing ==
    \/ PgTick /\ UNCHANGED <<coreVars, dqVars, wsVars, alVars, rcVars, laterVars>>
    \/ PgPing /\ UNCHANGED <<coreVars, dqVars, wsVars, alVars, rcVars, laterVars>>
    \/ PgPong /\ UNCHANGED <<coreVars, dqVars, wsVars, alVars, rcVars, laterVars>>
    \/ PgClose /\ UNCHANGED <<coreVars, dqVars, wsVars, alVars, rcVars, laterVars>>
    \/ PgReadWrite /\ UNCHANGED <<coreVars, dqVars, wsVars, alVars, rcVars, laterVars>>

SpecPing == InitAll /\ [][NextPing]_vars

\* One run of the intercept command.
NextResolv ==
    \/ \E fwd \in BOOLEAN, file \in {{}} \cup {{f} : f \in ResolvFiles} :
          RcStart(fwd, file) /\ UNCHANGED <<coreVars, dqVars, wsVars, alVars, pgVars, laterVars>>
    \/ RcDns /\ UNCHANGED <<coreVars, dqVars, wsVars, alVars, pgVars, laterVars>>
    \/ RcSetup /\ UNCHANGED <<coreVars, dqVars, wsVars, alVars, pgVars, laterVars>>
    \/ RcShutdown /\ UNCHANGED <<coreVars, dqVars, wsVars, alVars, pgVars, laterVars>>

SpecResolv == InitAll /\ [][NextResolv]_vars

\* Redirected connections handled while registry entries come and go.
NextOutbound ==
    \/ \E ip \in ProxyIPs : ObRegister(ip) /\ UNCHANGED obOthers
    \/ \E ip \in ProxyIPs : ObRelease(ip) /\ UNCHANGED obOthers
    \/ \E c \in Conns : ObAccept(c) /\ UNCHANGED obOthers
    \/ \E c \in Conns : ObOrigDst(c) /\ UNCHANGED obOthers
    \/ \E c \in Conns : ObDial(c) /\ UNCHANGED obOthers
    \/ \E c \in Conns : ObPipeEnd(c) /\ UNCHANGED obOthers

SpecOutbound == InitAll /\ [][NextOutbound]_vars

\* Logical connections created on both sides of one tunnel and closed.
NextIds ==
    \/ \E t \in EgressSocks : IdEgressOpen(t) /\ UNCHANGED idOthers
    \/ \E req \in IngressReqs : IdIngressOpen(req) /\ UNCHANGED idOthers
    \/ \E l \in idLive : IdClose(l) /\ UNCHANGED idOthers

SpecIds == InitAll /\ [][NextIds]_vars

\* One connection of each type, its deliverer, its consumer and its close.
NextBuf ==
    \/ \E k \in BufKinds : BfDeliverBegin(k) /\ UNCHANGED bfOthers
    \/ \E k \in BufKinds : BfDeliverQueue(k) /\ UNCHANGED bfOthers
    \/ \E k \in BufKinds : BfDeliverClosed(k) /\ UNCHANGED bfOthers
    \/ \E k \in BufKinds : BfRead(k) /\ UNCHANGED bfOthers
    \/ \E k \in BufKinds : BfClose(k) /\ UNCHANGED bfOthers

SpecBuf == InitAll /\ [][NextBuf]_vars

\* One call of either function on any connection.
NextOrigDst ==
    \/ \E fn \in OdFunctions, conn \in OdConns : OdCall(fn, conn) /\ UNCHANGED odOthers
    \/ OdReturn /\ UNCHANGED odOthers

SpecOrigDst == InitAll /\ [][NextOrigDst]_vars

\* One call of ParseAddr on any of the addresses.
NextParse ==
    \/ PaCall /\ UNCHANGED paOthers
    \/ PaReturn /\ UNCHANGED paOthers

SpecParse == InitAll /\ [][NextParse]_vars

\* One call of pickBestPod on any list of pods.
NextPick ==
    \/ PkCall /\ UNCHANGED pkOthers
    \/ PkReturnNil /\ UNCHANGED pkOthers
    \/ PkReturnBest /\ UNCHANGED pkOthers

SpecPick == InitAll /\ [][NextPick]_vars

\* Writers and closers of one Conn, interleaved in any order.
NextWrite ==
    \/ \E w \in Writers : CwWriteCheck(w) /\ UNCHANGED cwOthers
    \/ \E w \in Writers : CwWriteSend(w) /\ UNCHANGED cwOthers
    \/ \E w \in Writers : CwWriteSendFail(w) /\ UNCHANGED cwOthers
    \/ \E k \in Closers : CwCloseOnce(k) /\ UNCHANGED cwOthers
    \/ \E k \in Closers : CwCloseStore(k) /\ UNCHANGED cwOthers
    \/ \E k \in Closers : CwCloseSend(k) /\ UNCHANGED cwOthers
    \/ \E k \in Closers : CwCloseSendFail(k) /\ UNCHANGED cwOthers
    \/ \E k \in Closers : CwCloseEnd(k) /\ UNCHANGED cwOthers
    \/ \E k \in Closers : CwCloseWait(k) /\ UNCHANGED cwOthers

SpecWrite == InitAll /\ [][NextWrite]_vars

\* One TunnelConn closed locally any number of times, closed remotely, and
\* written to.
NextTcClose ==
    \/ \E has \in BOOLEAN : TkNewTunnelConn(has) /\ UNCHANGED tkOthers
    \/ TkSignalClose /\ UNCHANGED tkOthers
    \/ \E k \in Closers : TkCloseOnce(k) /\ UNCHANGED tkOthers
    \/ \E k \in Closers : TkCloseOnClose(k) /\ UNCHANGED tkOthers
    \/ \E w \in Writers : TkWrite(w) /\ UNCHANGED tkOthers

SpecTcClose == InitAll /\ [][NextTcClose]_vars

\* CONNECT requests, the reader of the channel, and one Shutdown.
NextConnect ==
    \/ \E r \in Requests : HcServeHTTP(r) /\ UNCHANGED hcOthers
    \/ \E r \in Requests : HcHijackFail(r) /\ UNCHANGED hcOthers
    \/ \E r \in Requests : HcHijack(r) /\ UNCHANGED hcOthers
    \/ \E r \in Requests : HcSend(r) /\ UNCHANGED hcOthers
    \/ HcReceive /\ UNCHANGED hcOthers
    \/ HcShutdownClose /\ UNCHANGED hcOthers
    \/ HcShutdownServer /\ UNCHANGED hcOthers

SpecConnect == InitAll /\ [][NextConnect]_vars

\* A paired tunnel: messages arrive, either remote end may fail, and the two
\* goroutines and the two handlers run.
NextRelay ==
    \/ \E i \in RelayConns : RlArrive(i) /\ UNCHANGED rlOthers
    \/ \E i \in RelayConns : RlBreak(i) /\ UNCHANGED rlOthers
    \/ \E i \in RelayConns : RlReadMessage(i) /\ UNCHANGED rlOthers
    \/ \E i \in RelayConns : RlReadError(i) /\ UNCHANGED rlOthers
    \/ \E i \in RelayConns : RlWriteMessage(i) /\ UNCHANGED rlOthers
    \/ \E i \in RelayConns : RlWriteError(i) /\ UNCHANGED rlOthers
    \/ RlRelayReturn /\ UNCHANGED rlOthers
    \/ RlCloseDone /\ UNCHANGED rlOthers
    \/ RlClientReturn /\ UNCHANGED rlOthers
    \/ RlSrvDone /\ UNCHANGED rlOthers
    \/ RlSrvReturn /\ UNCHANGED rlOthers

\* Goroutines and handlers that can take a step do so; ReadMessage and
\* WriteMessage return (a message, or an error on a closed or failed
\* connection). Nothing makes a message arrive or a remote end fail.
RelayFairness ==
    /\ \A i \in RelayConns :
          /\ WF_vars((RlReadMessage(i) \/ RlReadError(i)) /\ UNCHANGED rlOthers)
          /\ WF_vars((RlWriteMessage(i) \/ RlWriteError(i)) /\ UNCHANGED rlOthers)
    /\ WF_vars(RlRelayReturn /\ UNCHANGED rlOthers)
    /\ WF_vars(RlCloseDone /\ UNCHANGED rlOthers)
    /\ WF_vars(RlClientReturn /\ UNCHANGED rlOthers)
    /\ WF_vars(RlSrvDone /\ UNCHANGED rlOthers)
    /\ WF_vars(RlSrvReturn /\ UNCHANGED rlOthers)

SpecRelay == InitAll /\ [][NextRelay]_vars /\ RelayFairness

\* /__tunnel/connect requests handled concurrently on one event loop, with
\* the clients' connections succeeding, failing and ending.
NextDispatch ==
    \/ \E h \in Handlers, url \in SandboxUrls : HtcCall(h, url) /\ UNCHANGED gtOthers
    \/ \E c \in Clients : GtConnectOk(c) /\ UNCHANGED gtOthers
    \/ \E c \in Clients : GtConnectFail(c) /\ UNCHANGED gtOthers
    \/ \E h \in Handlers : HtcResumeOk(h) /\ UNCHANGED gtOthers
    \/ \E h \in Handlers : HtcResumeFail(h) /\ UNCHANGED gtOthers
    \/ \E h \in Handlers : HtcWake(h) /\ UNCHANGED gtOthers
    \/ \E c \in Clients : GtRemoteClose(c) /\ UNCHANGED gtOthers
    \/ \E c \in Clients : GtRunResolves(c) /\ UNCHANGED gtOthers
    \/ \E c \in Clients : GtRunRejects(c) /\ UNCHANGED gtOthers

SpecDispatch == InitAll /\ [][NextDispatch]_vars

\* Tunnel connections that send a first message of any kind, or none.
NextRegister ==
    \/ RgTick /\ UNCHANGED rgOthers
    \/ \E t \in Tunnels : RgUpgrade(t) /\ UNCHANGED rgOthers
    \/ \E t \in Tunnels : RgReadTimeout(t) /\ UNCHANGED rgOthers
    \/ \E t \in Tunnels, f \in FirstFrames, found \in BOOLEAN :
          RgFirstMessage(t, f, found) /\ UNCHANGED rgOthers
    \/ \E t \in Tunnels : RgPair(t) /\ UNCHANGED rgOthers
    \/ \E t \in Tunnels : RgRelay(t) /\ UNCHANGED rgOthers
    \/ \E t \in Tunnels : RgEnd(t) /\ UNCHANGED rgOthers

SpecRegister == InitAll /\ [][NextRegister]_vars

\* Intercept runs one after another, the first finding a resolver file that
\* does not name the interceptor's own address.
NextRuns ==
    \/ /\ \E fwd \in BOOLEAN, file \in CleanFiles : RcStart(fwd, file)
       /\ rnRuns' = 1
       /\ UNCHANGED runsOthers
    \/ /\ rnRuns < MaxRuns
       /\ \E fwd \in BOOLEAN : RcRerun(fwd)
       /\ rnRuns' = rnRuns + 1
       /\ UNCHANGED runsOthers
    \/ RcDns /\ UNCHANGED <<rnRuns, runsOthers>>
    \/ RcSetup /\ UNCHANGED <<rnRuns, runsOthers>>
    \/ RcShutdown /\ UNCHANGED <<rnRuns, runsOthers>>

SpecRuns == InitAll /\ [][NextRuns]_vars

(* ------------------------------------------------------------------ *)
(* Claims about the logical connections                                 *)
(* ------------------------------------------------------------------ *)

\* The bytes a TunnelConn still holds for its consumer: leftover, then the queue.
TcPending == tcBuf \o Flatten(tcReadCh)

\* The bytes a Conn still holds for its consumer: the queue.
CnPending == Flatten(cnReadBuf)

\* C1: on a connection that stays open, the bytes returned by the Reads so far,
\* followed by the bytes still held for the consumer, are exactly the bytes
\* queued on its inbound buffer, in order: no byte is dropped, duplicated or
\* reordered, whatever the size of the read buffers.
C1_ReadsEqualDelivered ==
    /\ (tcCloseBy = "none") => (tcGot \o TcPending = tcQueued)
    /\ (cnClosePc = "idle") => (cnGot \o CnPending = cnQueued)

\* C2: when SignalClose is applied after data was queued, the first Read that
\* returns EOF comes after every byte queued before the close was returned.
C2_CloseAfterQueuedData ==
    (tcCloseBy = "remote" /\ tcEOF) => (tcGotAtEOF >= tcQueuedAtClose)

\* C3: once a connection is CLOSED (its Close has returned or a Read has returned
\* EOF), no Read that starts later returns any bytes.
C3_NoBytesAfterClosed == ~tcLate /\ ~cnLate

\* A connection is torn down: handleOutbound has returned, the local socket and
\* the tunnel connection are closed and both copies have ended.
TornDown(c) ==
    /\ hoPc[c] = "done"
    /\ ~sockOpen[c]
    /\ tnSt[c] = "closed"
    /\ cpIn[c] = "done" /\ cpOut[c] = "done"

C6_NoDoubleGrant == \A ip \in CidrHosts : plGrants[ip] <= 1

\* An IP was acquired, released and acquired again while another caller was
\* inside the pool.
C6_Witness ==
    \E ip \in plReleased : plGrants[ip] = 1 /\ \E t \in PoolThreads : plPc[t] # "idle"

\* C7: the allocated set and the free set are disjoint and together are exactly
\* the usable host addresses of the CIDR.
C7_PoolPartition ==
    /\ poolAlloc \cap poolFree = {}
    /\ poolAlloc \cup poolFree = CidrHosts
    /\ Cardinality(poolAlloc) + Cardinality(poolFree) = Pow2(HostBits) - 2

\* The pool after a failed acquire, a release of an IP that was not allocated and
\* a release that freed one, with an IP allocated.
C7_Witness == plFailed /\ plNoop /\ plReleased # {} /\ poolAlloc # {}

\* C5: whenever the registry mutex is free, the proxy IPs with a Registry entry
\* are exactly the IPs the pool has allocated.
C5_RegistryMatchesPool == (regMu = 0) => (DOMAIN regEntries = poolAlloc)

\* An entry is registered while a sweep is in progress, a DNS handler is in
\* flight and the sweeper has already released an entry.
C5_Witness ==
    /\ regMu = 0
    /\ DOMAIN regEntries # {}
    /\ swPc = "sweeping"
    /\ swReleased
    /\ \E t \in DnsThreads : dnsPc[t] = "resolve"

\* C8: the sweeper releases an entry only when its last lookup (or its
\* allocation) is at least unused-timeout old; an entry refreshed during a sweep
\* is not released by it.
C8_SweeperSparesFresh == ~swEarly

\* The sweeper has released an entry that had been looked up, and a sweep has
\* spared an entry that was refreshed after the sweep began.
C8_Witness == swReleased /\ swLooked /\ swSpared

C10_ExhaustionLeavesRegistry ==
    [][\A t \in DnsThreads :
          (dnsPc[t] = "acquire" /\ poolFree = {} /\ dnsPc'[t] # "acquire")
              => /\ dnsAns'[t] = [rcode |-> "SERVFAIL", ip |-> 0]
                 /\ regEntries' = regEntries
                 /\ poolAlloc' = poolAlloc
                 /\ poolFree' = poolFree]_vars

\* A query was answered SERVFAIL for an exhausted pool, every host address is
\* still registered and one of them has been looked up.
C10_Witness ==
    \E t \in DnsThreads :
        /\ dnsExhausted[t]
        /\ dnsPc[t] = "idle"
        /\ dnsAns[t].rcode = "SERVFAIL"
        /\ DOMAIN regEntries = CidrHosts
        /\ regLooked # {}

\* C17: the step in which a connection's handler returns (original-destination
\* recovery failed, the dial failed, or a copy direction ended) leaves the
\* listener, the tunnel and every other connection's handler, socket, tunnel
\* connection and copies as they were.
C17_FailureIsLocal ==
    [][\A c \in Conns :
          (hoPc[c] # "done" /\ hoPc'[c] = "done")
              => /\ listenerClosed' = listenerClosed
                 /\ tunnelDown' = tunnelDown
                 /\ \A d \in Conns \ {c} :
                        /\ hoPc'[d] = hoPc[d]
                        /\ sockOpen'[d] = sockOpen[d]
                        /\ sockData'[d] = sockData[d]
                        /\ sockEOF'[d] = sockEOF[d]
                        /\ tnSt'[d] = tnSt[d]
                        /\ tnData'[d] = tnData[d]
                        /\ cpIn'[d] = cpIn[d]
                        /\ cpOut'[d] = cpOut[d]
                        /\ errCh'[d] = errCh[d]]_vars

\* One connection's handler has returned without ever having a tunnel
\* connection (its original-destination recovery or its dial failed) while
\* another connection, with both ends open, has a chunk from the tunnel in
\* hand to write to its socket, and the listener is open.
C17_Witness ==
    \E c, d \in Conns :
        /\ c # d
        /\ hoPc[c] = "done" /\ tnSt[c] = "none"
        /\ hoPc[d] = "wait" /\ sockOpen[d] /\ tnSt[d] = "open"
        /\ cpIn[d] = "write"
        /\ ~listenerClosed /\ ~tunnelDown

(* ------------------------------------------------------------------ *)
(* Claims about the DNS interceptor                                     *)
(* ------------------------------------------------------------------ *)

LabelsFrom(h, k) == [i \in 1..(Len(h) - k + 1) |-> h[i + k - 1]]

\* "*" matches every name; "*.suffix" the names with exactly one label in front
\* of the suffix; "**.suffix" the names with one or more labels in front of it;
\* a literal only the identical name.
TableMatch(p, h) ==
    \/ p = <<"*">>
    \/ /\ Len(p) > 1 /\ p[1] = "*"
       /\ Len(h) = Len(p)
       /\ LabelsFrom(h, 2) = LabelsFrom(p, 2)
    \/ /\ Len(p) > 1 /\ p[1] = "**"
       /\ Len(h) >= Len(p)
       /\ LabelsFrom(h, Len(h) - Len(p) + 2) = LabelsFrom(p, 2)
    \/ /\ p[1] \notin {"*", "**"}
       /\ h = p

\* A query has been handled and its response written.
DqDone == dqPc = "done"

\* C12: an AAAA query whose name matches a configured pattern is answered
\* NOERROR with zero answer records.
C12_MatchedAaaaIsEmptyNoerror ==
    (/\ DqDone
     /\ dqType = "AAAA"
     /\ \E i \in 1..Len(dqPatterns) : TableMatch(dqPatterns[i], Normalise(dqName)))
        => (dqResp.rcode = "NOERROR" /\ dqResp.answers = 0)

\* A matched AAAA query for an upper-case name with a trailing dot, matched by
\* a "**." pattern only, has been answered.
C12_Witness ==
    /\ DqDone
    /\ dqType = "AAAA"
    /\ dqName = <<"A", "b", "c", "">>
    /\ dqPatterns = <<<<"**", "c">>>>
    /\ dqResp = AnswerAAAA

\* C13: the pattern that decides a query is the first pattern of the list that
\* matches the lower-cased, dot-stripped name by the match table, and none
\* decides it when none matches.
C13_FirstMatchDecides ==
    DqDone =>
        LET h == Normalise(dqName)
        IN  /\ h = [i \in 1..Len(h) |-> Lower(dqName[i])]
            /\ \A i \in 1..Len(h) : h[i] \in {"a", "b", "c"}
            /\ dqIdx \in 0..Len(dqPatterns)
            /\ dqIdx > 0 => TableMatch(dqPatterns[dqIdx], h)
            /\ \A j \in 1..Len(dqPatterns) :
                   (dqIdx = 0 \/ j < dqIdx) => ~TableMatch(dqPatterns[j], h)
            /\ (dqIdx = 0) => dqResp.via = "upstream"
            /\ (dqIdx > 0 /\ dqType \in {"A", "AAAA"}) => dqResp.via # "upstream"

\* A two-label-deep name was refused by "*.c" and then matched by "**.c", the
\* second pattern of the list.
C13_Witness ==
    /\ DqDone
    /\ dqPatterns = <<<<"*", "c">>, <<"**", "c">>>>
    /\ dqName = <<"A", "b", "c", "">>
    /\ dqIdx = 2

(* ------------------------------------------------------------------ *)
(* Claims about the websocket relay's pairing                           *)
(* ------------------------------------------------------------------ *)

\* A server handler takes its registration in this step.
SrvRegisters(s) == srvPc[s] = "idle" /\ srvPc'[s] # "idle"

\* C14: a server handed to a client's ready channel carries that client's key;
\* every relayed message passes between a client and the server handed to it
\* under its key; and a server registering with the key of a client that is
\* pending, unpaired and not timed out is handed to exactly that client.
C14_PairedByKey ==
    /\ [](\A s \in WsServers :
            srvPeer[s] # 0 =>
                (srvKey[s] = ConnKey(srvPeer[s]) /\ wsReady[srvPeer[s]] = s))
    /\ [](\A pair \in wsRelayed :
            srvPeer[pair[2]] = pair[1] /\ srvKey[pair[2]] = ConnKey(pair[1]))
    /\ [][\A s \in WsServers, c \in WsClients :
             (/\ SrvRegisters(s)
              /\ srvKey'[s] = ConnKey(c)
              /\ clPc[c] \in {"stored", "posting", "waiting"}
              /\ wsReady[c] = 0
              /\ ~wsTimedOut[c])
                 => (wsReady'[c] = s /\ srvPeer'[s] = c /\ srvPc'[s] = "handed")]_vars

\* Both clients are paired, each with the server that registered with its key,
\* in the opposite order of their indices, and messages were relayed on both.
C14_Witness ==
    /\ wsRelayed = {<<1, 2>>, <<2, 1>>}
    /\ srvKey[2] = ConnKey(1)
    /\ srvKey[1] = ConnKey(2)
    /\ clPc[1] = "relaying"
    /\ clPc[2] = "relaying"

\* The client was sent an error frame for a failed pairing, its connection is
\* closed and its key is no longer pending.
Terminated(c) ==
    /\ clPc[c] = "closed"
    /\ clErr[c] \in {"timeout", "notify"}
    /\ ConnKey(c) \notin DOMAIN wsPending

\* C15: a client whose pairing timeout expires with no server handed to it is
\* terminated (error frame with close set, connection closed, pending entry
\* removed) unless a server is handed to it before its handler acts on the
\* expiry; a server registering with the key of a closed client is rejected.
C15_UnpairedClientTimesOut ==
    /\ \A c \in WsClients :
           (wsTimedOut[c] /\ wsReady[c] = 0) ~> (Terminated(c) \/ wsReady[c] # 0)
    /\ [][\A s \in WsServers, c \in WsClients :
             (SrvRegisters(s) /\ srvKey'[s] = ConnKey(c) /\ clPc[c] = "closed")
                 => (srvErr'[s] = "nopending" /\ srvPc'[s] = "closed"
                     /\ srvPeer'[s] = 0)]_vars

\* C15 as stated: every client whose pairing timeout expires with no server
\* handed to it is terminated.
C15_TimedOutClientTerminated ==
    \A c \in WsClients : (wsTimedOut[c] /\ wsReady[c] = 0) ~> Terminated(c)

\* A client timed out with no server, was sent the timeout error and closed; a
\* server that registered with its key afterwards was rejected.
C15_Witness ==
    \E c \in WsClients, s \in WsServers :
        /\ wsTimedOut[c]
        /\ wsReady[c] = 0
        /\ Terminated(c)
        /\ clErr[c] = "timeout"
        /\ srvKey[s] = ConnKey(c)
        /\ srvErr[s] = "nopending"

C18_CancelStopsAcceptLoops ==
    /\ \A k \in Loops : alCtx[k] ~> (~alLn[k] /\ alPc[k] # "accept")
    /\ [][\A k \in Loops : ~alLn[k] => alCount'[k] = alCount[k]]_vars

\* The same for the two loops whose listener is closed on cancellation.
C18_ClosingLoopsStop ==
    /\ \A k \in Loops \ {"Serve"} : alCtx[k] ~> (~alLn[k] /\ alPc[k] # "accept")
    /\ [][\A k \in Loops : ~alLn[k] => alCount'[k] = alCount[k]]_vars


(* ------------------------------------------------------------------ *)
(* Claims about the websocket connection                                *)
(* ------------------------------------------------------------------ *)

\* A ping has been without its pong for longer than the 10 s wait.
PongOverdue == pgAwait # -1 /\ pgNow > pgAwait + PingWriteWait

\* The ping half alone: pings are sent every 30 s while the loop runs.
C19_PingEveryInterval ==
    pgPc = "loop" /\ ~pgClosed
        => pgNext % PingInterval = 0 /\ pgNext - pgNow \in 0..PingInterval

\* C19: while the connection is open and its ping loop runs, a ping is sent
\* at every multiple of 30 s; and once a ping's pong is more than 10 s
\* overdue the connection is closed (a closed wsConn fails every Read and
\* Write).
C19_PingAndPongTimeout ==
    /\ C19_PingEveryInterval
    /\ PongOverdue => pgClosed

(* ------------------------------------------------------------------ *)
(* Claims about the resolver file                                       *)
(* ------------------------------------------------------------------ *)

\* C20: when doIntercept has returned and had written the prepended
\* nameserver line, the resolver file holds exactly what it held before.
C20_ResolvConfRestored ==
    (rcPc = "returned" /\ rcPrepended) => rcFile = rcOrig

\* The orderly shutdown alone: a return from the cleanup after Run leaves the
\* file as it was before the rewrite.
C20_ShutdownRestores ==
    [][(rcPc = "run" /\ rcPc' = "returned" /\ rcPrepended) => rcFile' = rcOrig]_vars

\* The lines of a resolver file that name a nameserver.
NameserverLines(f) ==
    {i \in 1..Len(f) : Len(f[i]) >= 2 /\ f[i][1] = "nameserver"}

\* C21: once the DNS server has been started, its upstream resolver is the
\* first nameserver entry of the resolver file as it was before doIntercept
\* touched it (the default when the file was missing or named none); and with
\* forward domains doIntercept can always get past its DNS block, whatever
\* the resolver file is.
C21_UpstreamIsOriginalNameserver ==
    /\ (rcFwd /\ rcUpstream # "") =>
          \/ /\ rcOrig = {} \/ \A f \in rcOrig : NameserverLines(f) = {}
             /\ rcUpstream = DefaultNameserver
          \/ \E f \in rcOrig : \E i \in NameserverLines(f) :
                /\ \A j \in NameserverLines(f) : i <= j
                /\ rcUpstream = f[i][2] \o ":53"
    /\ (rcFwd /\ rcPc \notin {"start", "dns", "returned"}) => rcUpstream # ""
    /\ rcPc = "dns" => ENABLED (RcDns /\ rcPc' = "proxy")

\* The intercept runs with the rewritten file; the original file's first
\* nameserver entry is on its second line and is the upstream.
C21_Witness ==
    /\ rcPc = "run"
    /\ rcPrepended
    /\ rcOrig = {<<(<<"search", "svc">>), (<<"nameserver", "10.0.0.2">>)>>}
    /\ rcUpstream = "10.0.0.2:53"

(* ------------------------------------------------------------------ *)
(* Claims about redirected connections                                  *)
(* ------------------------------------------------------------------ *)

\* C22: a logical stream is opened on the tunnel only for a connection whose
\* recovered proxy IP has a registry entry at that moment; a connection whose
\* proxy IP has none is closed without one.
C22_RegistryMissOpensNoStream ==
    [][\A c \in Conns :
          (~obStream[c] /\ obStream'[c]) => obDst[c] \in obEntries]_vars

(* ------------------------------------------------------------------ *)
(* Claims about connection IDs                                          *)
(* ------------------------------------------------------------------ *)

\* C23: no two logical connections in flight on the tunnel have the same ID,
\* whichever side created them.
C23_LiveIdsUnique ==
    \A a, b \in idLive : a # b => a.id # b.id

\* The same for connections created on the egress side, and between the two
\* sides.
C23_EgressIdsUnique ==
    \A a, b \in idLive :
        (a # b /\ (a.side = "egress" \/ b.side = "egress")) => a.id # b.id

\* C24: a logical connection is never created with the ID of a connection
\* that has been closed.
C24_ClosedIdNotReused ==
    [][\A l \in idLive' \ idLive : l.id \notin idClosed]_vars

(* ------------------------------------------------------------------ *)
(* Claims about the inbound buffers                                     *)
(* ------------------------------------------------------------------ *)

\* The deliverer of k loses its chunk in this step without queueing it.
BfDrops(k) == bfSend[k] /\ ~bfSend'[k] /\ bfLen'[k] = bfLen[k]

\* C25: the inbound buffer of every logical connection holds at most 64
\* undelivered chunks; a chunk handed to the deliverer is queued or, once the
\* connection is closed, given up, and is never dropped while the connection
\* is open.
C25_InboundDepth64 ==
    /\ [](\A k \in BufKinds : bfLen[k] <= 64)
    /\ [][\A k \in BufKinds : BfDrops(k) => bfClosed[k]]_vars

\* The same with each type's own depth: 64 for TunnelConn, 100 for Conn.
C25_InboundDepthOwn ==
    /\ [](\A k \in BufKinds : bfLen[k] <= BufDepth(k))
    /\ [][\A k \in BufKinds : BfDrops(k) => bfClosed[k]]_vars

(* ------------------------------------------------------------------ *)
(* Claims about original-destination recovery                           *)
(* ------------------------------------------------------------------ *)

\* C26: off Linux, original-destination recovery for an accepted (TCP)
\* connection returns the connection's remote address and no error.
C26_FallbackReturnsRemoteAddr ==
    (odPc = "returned" /\ odConn.type = "tcp")
        => (~odRes.err /\ odRes.dst = AddrString(odConn))

\* The same for netutil.OriginalDest alone.
C26_OriginalDestReturnsRemoteAddr ==
    (odPc = "returned" /\ odConn.type = "tcp" /\ odFn = "OriginalDest")
        => (~odRes.err /\ odRes.dst = AddrString(odConn))

(* ------------------------------------------------------------------ *)
(* Claims about ParseAddr                                               *)
(* ------------------------------------------------------------------ *)

\* The parts of the stated form: no prefix or "k8spf:///"; a name and a
\* namespace, both non-empty; an unsigned port in 1..65535; no query,
\* workload=pod|deployment and/or context.
FormPrefixes == {<<>>, <<"k8spf://", "/">>}
FormPorts == {<<":", "9090">>, <<":", "1">>, <<":", "65535">>}
FormQueries ==
    {<<>>,
     <<"?", "workload", "=", "pod">>,
     <<"?", "workload", "=", "deployment">>,
     <<"?", "context", "=", "staging">>,
     <<"?", "workload", "=", "deployment", "&", "context", "=", "staging">>}

HostOfForm(in) ==
    in.ip = "none" /\ in.name # <<>> /\ in.hasNs /\ in.ns # <<>>

OfStatedForm(in) ==
    /\ in.prefix \in FormPrefixes
    /\ HostOfForm(in)
    /\ in.port \in FormPorts
    /\ in.query \in FormQueries

\* What ParseAddr accepts beyond the stated form: the prefix "k8spf://", a
\* signed port, and query parameters it does not know.
OfAcceptedForm(in) ==
    /\ HostOfForm(in)
    /\ in.port \in FormPorts \cup {<<":", "+", "80">>}
    /\ in.query \in FormQueries \cup {<<"?", "other", "=", "1">>}

\* The Target the parts of the address name.
TargetOf(in) ==
    [ok |-> TRUE,
     name |-> in.name,
     ns |-> in.ns,
     port |-> IF in.port = <<":", "+", "80">> THEN 80 ELSE DigitsValue(in.port[2]),
     workload |-> IF in.query \in {<<"?", "workload", "=", "deployment">>,
                                    <<"?", "workload", "=", "deployment", "&",
                                      "context", "=", "staging">>}
                     THEN "deployment" ELSE "pod",
     context |-> IF in.query \in {<<"?", "context", "=", "staging">>,
                                   <<"?", "workload", "=", "deployment", "&",
                                     "context", "=", "staging">>}
                    THEN "staging" ELSE ""]

\* The inputs the claim lists as errors.
ListedError(in) ==
    \/ in.ip # "none"
    \/ ~in.hasNs
    \/ in.name = <<>>
    \/ in.ns = <<>>
    \/ in.port \in {<<>>, <<":", "0">>, <<":", "-", "1">>, <<":", "99999">>}
    \/ in.query = <<"?", "workload", "=", "invalid">>
    \/ PaRender(in) = <<>>

\* C27 as stated: ParseAddr succeeds exactly on the addresses of the stated
\* form, then returning the Target they name, and fails on every listed
\* error.
C27_AcceptsExactlyStatedForm ==
    paPc = "returned" =>
        /\ paRes.ok <=> OfStatedForm(paIn)
        /\ paRes.ok => paRes = TargetOf(paIn)
        /\ ListedError(paIn) => ~paRes.ok

\* C27: ParseAddr succeeds on every address of the stated form, and exactly
\* on the addresses of the accepted form (the stated one, or with the prefix
\* "k8spf://", a signed port or an unknown query parameter), returning the
\* Target they name; it fails on every listed error.
C27_AcceptsStatedFormAndMore ==
    paPc = "returned" =>
        /\ OfStatedForm(paIn) => paRes.ok
        /\ paRes.ok <=> OfAcceptedForm(paIn)
        /\ paRes.ok => paRes = TargetOf(paIn)
        /\ ListedError(paIn) => ~paRes.ok

\* ParseAddr has returned the Target of
\* k8spf:///pod.ns:9090?workload=deployment&context=staging.
C27_Witness ==
    /\ paPc = "returned"
    /\ paAddr = <<"k8spf://", "/", "pod", ".", "ns", ":", "9090", "?", "workload",
                  "=", "deployment", "&", "context", "=", "staging">>
    /\ paRes = [ok |-> TRUE, name |-> <<"pod">>, ns |-> <<"ns">>, port |-> 9090,
                workload |-> "deployment", context |-> "staging"]

(* ------------------------------------------------------------------ *)
(* Claims about pickBestPod                                             *)
(* ------------------------------------------------------------------ *)

\* Time a ranks ahead of time b: earlier, with the zero time last.
TimeAhead(a, b) == a # b /\ (b = 0 \/ (a # 0 /\ a < b))

\* The stated ranking: q is preferred to p.
RankOf(phase) == IF phase = "Running" THEN 0 ELSE IF phase = "Unknown" THEN 1 ELSE 2

Preferred(q, p) ==
    IF RankOf(q.phase) # RankOf(p.phase) THEN RankOf(q.phase) < RankOf(p.phase)
    ELSE IF q.ready # p.ready THEN q.ready
    ELSE IF q.ready /\ q.readyTime # p.readyTime THEN TimeAhead(q.readyTime, p.readyTime)
    ELSE IF q.restarts # p.restarts THEN q.restarts < p.restarts
    ELSE TimeAhead(q.created, p.created)

\* C28: pickBestPod returns nil exactly when no pod is eligible, otherwise an
\* eligible pod (not being deleted, not Succeeded or Failed, with a node) to
\* which no other eligible pod is preferred under the stated ranking, a zero
\* time ranking last.
C28_PickBestPodReturnsBest ==
    pkPc = "returned" =>
        /\ pkRes = 0 <=> \A i \in 1..Len(pkPods) : ~PodEligible(pkPods[i])
        /\ pkRes # 0 =>
              /\ ~pkPods[pkRes].deleting
              /\ pkPods[pkRes].phase \notin {"Succeeded", "Failed"}
              /\ pkPods[pkRes].node
              /\ \A j \in 1..Len(pkPods) :
                    PodEligible(pkPods[j]) => ~Preferred(pkPods[j], pkPods[pkRes])

\* No zero time among the eligible pods.
NoZeroTime ==
    \A i \in 1..Len(pkPods) :
        PodEligible(pkPods[i]) =>
            /\ pkPods[i].created # 0
            /\ pkPods[i].ready => pkPods[i].readyTime # 0

\* C28, the part that holds: the same, as long as no eligible pod has a zero
\* creation time or a zero ready time.
C28_PickBestPodWithKnownTimes ==
    (pkPc = "returned" /\ NoZeroTime) => C28_PickBestPodReturnsBest

(* ------------------------------------------------------------------ *)
(* Claims about the end of a paired server handler                      *)
(* ------------------------------------------------------------------ *)

\* C29: a server handler that has handed its connection to a pending client
\* (and waits on pending.done) can always still return: whenever that
\* client's handler has exited, it has closed pending.done.
C29_PairedServerReturns ==
    \A s \in WsServers :
        (srvPc[s] = "handed" /\ clPc[srvPeer[s]] = "closed") => wsDone[srvPeer[s]]

\* C29, the part that holds: a client handler that exited after storing its
\* pending entry by any path but the failed dispatcher notification (relay
\* finished, pairing timeout in the select) has closed pending.done.
C29_DoneClosedOnOtherPaths ==
    \A c \in WsClients :
        (clPc[c] = "closed" /\ clErr[c] \notin {"nourl", "notify"}) => wsDone[c]

(* ------------------------------------------------------------------ *)
(* Claims about data frames and the close frame                         *)
(* ------------------------------------------------------------------ *)

\* C30: on the tunnel no data frame of the connection follows its close
\* frame.
C30_NoDataAfterClose ==
    \A i \in 1..Len(cwFrames) : \A j \in (i + 1)..Len(cwFrames) :
        ~(cwFrames[i] = "close" /\ cwFrames[j] = "data")

\* C30, the part that holds: a Write that starts after Close has set the
\* closed flag returns ErrClosedPipe and sends nothing.
C30_WriteAfterCloseFails ==
    [][\A w \in Writers :
          (cwClosed /\ CwWriteCheck(w)) =>
              (cwRet'[w] = "ErrClosedPipe" /\ cwFrames' = cwFrames)]_vars

(* ------------------------------------------------------------------ *)
(* Claims about repeated and concurrent Close                           *)
(* ------------------------------------------------------------------ *)

\* The number of entries of a sequence equal to f.
CountOf(frames, f) == Cardinality({i \in 1..Len(frames) : frames[i] = f})

\* Some Close call has returned.
TkSomeCloseReturned == \E k \in Closers : tkCalls[k] > 0

\* C31: the OnClose callback of a TunnelConn is invoked at most once, and
\* exactly once when a Close has returned.
C31_OnCloseExactlyOnce ==
    tkHasOnClose =>
        /\ tkOnClose <= 1
        /\ TkSomeCloseReturned => tkOnClose = 1

\* C31, the part that holds: OnClose has been invoked once for each Close
\* that has returned or is past closeOnce, whoever closed closeCh.
C31_OnClosePerCloseCall ==
    tkHasOnClose =>
        /\ tkOnClose = tkCalls[1] + tkCalls[2]
        /\ TkSomeCloseReturned => tkCloseCh

\* C32: for a connection closed locally, exactly one close(id) frame is sent,
\* however many Close calls are made.
C32_OneCloseFrame ==
    tkHasOnClose =>
        /\ CountOf(tkFrames, "close") <= 1
        /\ TkSomeCloseReturned => CountOf(tkFrames, "close") = 1

\* C32, the part that holds: a tunnel Conn sends at most one close frame,
\* and none before closeOnce was entered.
C32_ConnOneCloseFrame ==
    /\ CountOf(cwFrames, "close") <= 1
    /\ ~cwOnce => CountOf(cwFrames, "close") = 0

(* ------------------------------------------------------------------ *)
(* Claims about handleConnect and Shutdown                              *)
(* ------------------------------------------------------------------ *)

\* C33: no handleConnect sends on the closed connection channel: no request
\* ends in the panic, with its hijacked connection left open.
C33_NoSendOnClosedChannel ==
    \A r \in Requests : hcReq[r] # "panicked"

\* C33, the part that holds: before Shutdown every hijacked connection is
\* queued, or closed when the channel is full, and the channel never holds
\* more than its depth.
C33_QueuedOrClosedBeforeShutdown ==
    /\ hcCh <= ConnChBound
    /\ ~hcClosed => \A r \in Requests : hcReq[r] # "panicked"

(* ------------------------------------------------------------------ *)
(* Claims about server registrations with one key                      *)
(* ------------------------------------------------------------------ *)

\* Server s has registered with a client's key.
SrvRegisteredFor(s, c) == srvPc[s] # "idle" /\ srvKey[s] = ConnKey(c)

\* C34: of the server registrations carrying one client's key at most one is
\* paired with that client (handed to its ready channel); every other one
\* has been sent the error frame "no pending client" and is closed.
C34_OneServerPerKey ==
    \A c \in WsClients :
        /\ Cardinality({s \in WsServers : srvPeer[s] = c}) <= 1
        /\ \A s \in WsServers :
              (SrvRegisteredFor(s, c) /\ srvPeer[s] # c)
                  => (srvPc[s] = "closed" /\ srvErr[s] = "nopending")

\* Two servers have registered with the key of client 1 while it was pending:
\* one is paired with it, the other was refused and closed.
C34_Witness ==
    /\ SrvRegisteredFor(1, 1) /\ SrvRegisteredFor(2, 1)
    /\ srvPeer[2] = 1 /\ wsReady[1] = 2
    /\ srvPeer[1] = 0 /\ srvPc[1] = "closed" /\ srvErr[1] = "nopending"
    /\ clPc[1] \in {"posting", "waiting", "relaying"}

(* ------------------------------------------------------------------ *)
(* Claims about the end of a paired tunnel                              *)
(* ------------------------------------------------------------------ *)

\* C35: once a relay goroutine has ended on a read or write error, both
\* websocket connections are eventually closed and both relay goroutines
\* have terminated.
C35_BothSidesClosed ==
    (\E i \in RelayConns : rlG[i] = "done")
        ~> (/\ \A i \in RelayConns : rlClosed[i]
            /\ \A i \in RelayConns : rlG[i] = "done"
            /\ rlMain = "returned" /\ rlSrv = "returned")

\* The server's end failed after a message was relayed each way; both
\* connections are closed, both goroutines and both handlers are done.
C35_Witness ==
    /\ rlBroken = [i \in RelayConns |-> i = 2]
    /\ rlArrived = MaxRelayMsgs
    /\ rlIn = [i \in RelayConns |-> 0]
    /\ \A i \in RelayConns : rlClosed[i] /\ rlG[i] = "done"
    /\ rlMain = "returned" /\ rlSrv = "returned"

(* ------------------------------------------------------------------ *)
(* Claims about the dispatcher's tunnel client                          *)
(* ------------------------------------------------------------------ *)

\* The clients that are connecting or connected.
GtLive == {c \in Clients : gtConn[c] \in {"connecting", "connected"}}

\* C36: no client is disconnected while its connection attempt is in flight,
\* a call made during the attempt waits for it, and at most one client is
\* connecting or connected at any time.
C36_OneClientAtATime ==
    /\ gtCut = {}
    /\ Cardinality(GtLive) <= 1
    /\ \A h \in Handlers : hPc[h] = "await" => hAwait[h] = gtPromise

\* C36, the part that holds: the module's tunnelClient is the client created
\* last or null, and a call that finds it connected to the same sandbox
\* creates no client.
C36_LatestClientOnly ==
    /\ [](gtClient \in {0, gtNext})
    /\ [][\A url \in SandboxUrls : GtReusable(url) /\ gtUrl' = url => gtNext' = gtNext]_vars

\* C37: runUntilDone is started at most once on a client, and every client a
\* handleTunnelConnect has obtained has had it started.
C37_BackgroundOncePerClient ==
    /\ \A c \in Clients : gtRuns[c] <= 1
    /\ \A h \in Handlers : hPc[h] = "sleep" => gtRuns[hClient[h]] = 1

\* C37, the part that holds: runUntilDone is started only while
\* backgroundProcessingStarted is false, which it sets, and on the client
\* the handler has just obtained.
C37_StartedWhenFlagClear ==
    [][\A c \in Clients :
          gtRuns'[c] > gtRuns[c]
              => (~gtBg /\ gtBg' /\ \E h \in Handlers : hPc'[h] = "sleep" /\ hClient'[h] = c)]_vars

(* ------------------------------------------------------------------ *)
(* Claims about tcpProxy.Shutdown                                       *)
(* ------------------------------------------------------------------ *)

\* C38: once the listener of the TCP proxy is closed, Serve eventually
\* returns, whether or not its context is cancelled.
C38_ServeReturnsAfterShutdown ==
    ~alLn["Serve"] ~> (alPc["Serve"] = "returned")

\* C38, the part that holds: once the listener is closed and the context is
\* cancelled, Serve eventually returns.
C38_ServeReturnsWhenCancelled ==
    (~alLn["Serve"] /\ alCtx["Serve"]) ~> (alPc["Serve"] = "returned")

(* ------------------------------------------------------------------ *)
(* Claims about the registration message                                *)
(* ------------------------------------------------------------------ *)

\* The first messages that are not a valid registration.
InvalidFirst == {"garbage", "noreg", "clientNoUrl", "serverNoKey"}

\* C39: a connection whose first message is not a valid registration is
\* closed by the step that reads it, and one without a message is closed
\* once 30 s have passed since it connected; neither is ever paired and
\* none of their messages is relayed.
C39_UnregisteredIsClosed ==
    \A t \in Tunnels :
        /\ rgFirst[t] \in InvalidFirst => rgPc[t] = "closed"
        /\ (rgPc[t] # "none" /\ rgFirst[t] = "none" /\ rgNow > rgStart[t] + RegistrationTimeout)
              => rgPc[t] = "closed"
        /\ (rgFirst[t] \in InvalidFirst \cup {"none"})
              => (~rgPaired[t] /\ rgRelayed[t] = 0)

\* One connection sent no message and was closed after 30 s, the other sent
\* a Message without registration and was closed, while time went on.
C39_Witness ==
    /\ rgPc[1] = "closed" /\ rgFirst[1] = "none" /\ rgStart[1] = 0
    /\ rgPc[2] = "closed" /\ rgFirst[2] = "noreg"
    /\ rgNow > RegistrationTimeout

(* ------------------------------------------------------------------ *)
(* Claims about successive intercept runs                               *)
(* ------------------------------------------------------------------ *)

\* C40: in any sequence of intercept runs that starts from a resolver file
\* not naming 127.0.0.1, the upstream resolver handed to the DNS server is
\* never the interceptor's own address.
C40_UpstreamNeverLoopback ==
    rcUpstream # "127.0.0.1:53"

\* The first run alone never takes the interceptor's address as upstream,
\* and neither does a run that finds the file without the prepended line.
C40_UpstreamNotLoopbackOnCleanFile ==
    /\ rnRuns = 1 => rcUpstream # "127.0.0.1:53"
    /\ (\A f \in rcOrig : \A i \in 1..Len(f) : f[i] # LoopbackLine)
          => rcUpstream # "127.0.0.1:53"

====
